---------------------------- MODULE Spec2Model ----------------------------
(***************************************************************************)
(* Model of playwright-junit-reporter: the tag and annotation validators,  *)
(* the test case metadata composer and the validation orchestrator.        *)
(*                                                                         *)
(* Every function of the library is a synchronous function of its          *)
(* arguments, so a behaviour is one call: Init draws the operation and its *)
(* arguments, and the operation's action computes what the call returns,   *)
(* what it logs and whether it throws.                                     *)
(*                                                                         *)
(* JavaScript values are tagged records, so that values of different       *)
(* runtime types can be told apart and compared:                           *)
(*   undefined, null, string, number, boolean, function, array, object.    *)
(* An object is a function from its own enumerable keys to values; a key   *)
(* that is present with the value undefined differs from an absent key.    *)
(***************************************************************************)
EXTENDS Integers, Sequences, FiniteSets, TLC

VARIABLES op, args, phase, locals, result, log, env, VALIDATION_CONFIG

vars == <<op, args, phase, locals, result, log, env, VALIDATION_CONFIG>>

-----------------------------------------------------------------------------
(* Bounds of the model.                                                    *)

\* tags plus annotations of the testInfo of one validation
MaxItems == 2
\* tags plus annotations given to one createTestCaseMetadataFromArrays call
MaxComposeItems == 4
\* partial records given to one mergeTestCaseMetadata call
MaxPartials == 2
\* links of one typed input or metadata record
MaxLinks == 2
\* calls of mergeValidationConfig on the same two objects
MaxMerges == 2
\* command line arguments of one run of the CLI
MaxArgs == 3

-----------------------------------------------------------------------------
(* JavaScript values.                                                      *)

Undefined == [k |-> "undefined"]
Null == [k |-> "null"]
Str(s) == [k |-> "string", s |-> s]
Num(n) == [k |-> "number", n |-> n]
Bool(b) == [k |-> "boolean", b |-> b]
Fn(name) == [k |-> "function", f |-> name]
Arr(q) == [k |-> "array", a |-> q]
Obj(f) == [k |-> "object", o |-> f]

EmptyObject == Obj([key \in {} |-> Undefined])

\* the typeof operator
TypeOf(v) ==
  CASE v.k = "undefined" -> "undefined"
    [] v.k = "null" -> "object"
    [] v.k = "string" -> "string"
    [] v.k = "number" -> "number"
    [] v.k = "boolean" -> "boolean"
    [] v.k = "function" -> "function"
    [] v.k = "array" -> "object"
    [] v.k = "object" -> "object"

\* ToBoolean: what !v, v && .., v || .. and if (v) test
Truthy(v) ==
  CASE v.k = "undefined" -> FALSE
    [] v.k = "null" -> FALSE
    [] v.k = "string" -> v.s # ""
    [] v.k = "number" -> v.n # 0
    [] v.k = "boolean" -> v.b
    [] OTHER -> TRUE

\* Array.isArray
IsArray(v) == v.k = "array"

\* own enumerable string keys of an object (Object.entries order is not modelled:
\* no operation of the library depends on it)
Keys(v) == IF v.k = "object" THEN DOMAIN v.o ELSE {}

\* the property read v.key on a value that is neither null nor undefined
Get(v, key) ==
  IF v.k = "object" /\ key \in DOMAIN v.o THEN v.o[key] ELSE Undefined

\* the assignment v.key = val on an object
Set(v, key, val) ==
  Obj([x \in (DOMAIN v.o) \cup {key} |-> IF x = key THEN val ELSE v.o[x]])

\* Array.prototype.join on an array of strings
RECURSIVE Join(_, _)
Join(q, sep) ==
  IF Len(q) = 0 THEN ""
  ELSE IF Len(q) = 1 THEN q[1]
  ELSE q[1] \o sep \o Join(Tail(q), sep)

\* the string a template literal `${v}` produces
RECURSIVE JSToString(_)
JSToString(v) ==
  CASE v.k = "undefined" -> "undefined"
    [] v.k = "null" -> "null"
    [] v.k = "string" -> v.s
    [] v.k = "number" -> ToString(v.n)
    [] v.k = "boolean" -> IF v.b THEN "true" ELSE "false"
    [] v.k = "function" -> "function " \o v.f \o "() { [native code] }"
    [] v.k = "array" ->
         Join([i \in 1..Len(v.a) |->
                 IF v.a[i].k \in {"undefined", "null"} THEN "" ELSE JSToString(v.a[i])],
              ",")
    [] v.k = "object" -> "[object Object]"

\* Array.prototype.includes on an array of primitives
Includes(q, x) == \E i \in 1..Len(q) : q[i] = x

\* Array.prototype.find, given the elements the predicate accepts in order
\* (q.find(P) is the head of q.filter(P), or undefined)
LastOrUndefined(q) == IF Len(q) = 0 THEN Undefined ELSE q[Len(q)]

FirstOrUndefined(q) == IF Len(q) = 0 THEN Undefined ELSE q[1]

\* what a call gives back: a return value or a thrown error
Return(v) == [threw |-> FALSE, ret |-> v, error |-> ""]
Throw(msg) == [threw |-> TRUE, ret |-> Undefined, error |-> msg]

\* one call of a logging sink
Logged(sink, msg) == [sink |-> sink, msg |-> msg]
ConsoleWarn == Fn("console.warn")

-----------------------------------------------------------------------------
(* Enumeration registry.                                                   *)

ImportancePrimitives == <<Str("critical"), Str("high"), Str("medium"), Str("low")>>
InterfaceTypePrimitives == <<Str("ui"), Str("api"), Str("cli"), Str("db")>>
CategoryPrimitives ==
  <<Str("unit"), Str("function"), Str("system"), Str("integration"), Str("performance")>>

LINK_TYPE == Str("link")
IMPORTANCE_TYPE == Str("importance")
INTERFACE_TYPE == Str("interface")
CATEGORY_TYPE == Str("category")
ASSIGNEE_TYPE == Str("assignee")

AnnotationTypePrimitives ==
  <<LINK_TYPE, IMPORTANCE_TYPE, INTERFACE_TYPE, CATEGORY_TYPE, ASSIGNEE_TYPE>>

PW_PREFIX == "@"
PlaywrightTagValues == <<"skip", "fail", "fixme", "slow", "fast">>
CustomTagPrimitives == <<"smoke", "regression", "sanity", "e2e">>

-----------------------------------------------------------------------------
(* Tag validator.                                                          *)

\* isValidTag with the custom vocabulary left out of validTags
isValidTag_noCustom(tag) ==
  Includes([i \in 1..Len(PlaywrightTagValues) |-> Str(PW_PREFIX \o PlaywrightTagValues[i])],
           tag)

isValidTag(tag) ==
  LET validTags ==
        [i \in 1..Len(PlaywrightTagValues) |-> Str(PW_PREFIX \o PlaywrightTagValues[i])]
        \o [i \in 1..Len(CustomTagPrimitives) |-> Str(PW_PREFIX \o CustomTagPrimitives[i])]
  IN Includes(validTags, tag)

areValidTags(tags) == \A i \in 1..Len(tags) : isValidTag(tags[i])

IsInvalidTag(tag) == ~isValidTag(tag)

\* createValidTagsArray warning about each rejected tag on its own
createValidTagsArray_warnsEach(tags) ==
  LET validTags == SelectSeq(tags, isValidTag)
      invalidTags == SelectSeq(tags, IsInvalidTag)
  IN [ret |-> validTags,
      logs |-> [i \in 1..Len(invalidTags) |->
                  Logged(ConsoleWarn,
                         "Invalid tags found and filtered out: " \o JSToString(invalidTags[i]))]]

\* returns the valid tags; logs the rejected ones in one console.warn
createValidTagsArray(tags) ==
  LET validTags == SelectSeq(tags, isValidTag)
      invalidTags == SelectSeq(tags, IsInvalidTag)
  IN [ret |-> validTags,
      logs |-> IF Len(validTags) # Len(tags)
               THEN <<Logged(ConsoleWarn,
                             "Invalid tags found and filtered out: "
                               \o Join([i \in 1..Len(invalidTags) |-> JSToString(invalidTags[i])], ", "))>>
               ELSE <<>>]

-----------------------------------------------------------------------------
(* Annotation validator.                                                   *)

isValidAnnotationType(type) == Includes(AnnotationTypePrimitives, type)

isValidImportanceValue(value) == Includes(ImportancePrimitives, value)
isValidInterfaceTypeValue(value) == Includes(InterfaceTypePrimitives, value)
\* isValidCategoryValue over the category names of the generated schema
\* (functional for function)
isValidCategoryValue_functional(value) ==
  Includes(<<Str("unit"), Str("functional"), Str("system"), Str("integration"),
             Str("performance")>>, value)

isValidCategoryValue(value) == Includes(CategoryPrimitives, value)

isValidAnnotation(annotation) ==
  IF \/ TypeOf(annotation) # "object"
     \/ annotation = Null
     \/ TypeOf(Get(annotation, "type")) # "string"
     \/ TypeOf(Get(annotation, "description")) # "string"
  THEN FALSE
  ELSE LET type == Get(annotation, "type")
           description == Get(annotation, "description")
       IN IF ~isValidAnnotationType(type) THEN FALSE
          ELSE CASE type = LINK_TYPE \/ type = ASSIGNEE_TYPE -> TypeOf(description) = "string"
                 [] type = IMPORTANCE_TYPE -> isValidImportanceValue(description)
                 [] type = INTERFACE_TYPE -> isValidInterfaceTypeValue(description)
                 [] type = CATEGORY_TYPE -> isValidCategoryValue(description)
                 [] OTHER -> FALSE

areValidAnnotations(annotations) ==
  \A i \in 1..Len(annotations) : isValidAnnotation(annotations[i])

IsInvalidAnnotation(annotation) == ~isValidAnnotation(annotation)

\* (a as Record<string, unknown>)?.type || 'unknown'
TypeOrUnknown(a) ==
  LET type == IF a = Null \/ a = Undefined THEN Undefined ELSE Get(a, "type")
  IN IF Truthy(type) THEN type ELSE Str("unknown")

\* createValidAnnotationsArray keeping the first of equal valid annotations only
createValidAnnotationsArray_dropsDuplicates(annotations) ==
  LET validAnnotations == SelectSeq(annotations, isValidAnnotation)
      firsts == {i \in 1..Len(validAnnotations) :
                   \A j \in 1..(i - 1) : validAnnotations[j] # validAnnotations[i]}
  IN [ret |-> [n \in 1..Cardinality(firsts) |->
                 validAnnotations[CHOOSE i \in firsts :
                                    Cardinality({j \in firsts : j <= i}) = n]],
      logs |-> <<>>]

\* returns the valid annotations; logs the types of the rejected ones in one
\* console.warn
createValidAnnotationsArray(annotations) ==
  LET validAnnotations == SelectSeq(annotations, isValidAnnotation)
      invalidAnnotations == SelectSeq(annotations, IsInvalidAnnotation)
  IN [ret |-> validAnnotations,
      logs |-> IF Len(validAnnotations) # Len(annotations)
               THEN <<Logged(ConsoleWarn,
                             "Invalid annotations found and filtered out: "
                               \o Join([i \in 1..Len(invalidAnnotations) |->
                                          JSToString(TypeOrUnknown(invalidAnnotations[i]))],
                                       ", "))>>
               ELSE <<>>]

\* the guards createAnnotationTypeGuard(expectedType) builds
isLinkAnnotation(annotation) == Get(annotation, "type") = LINK_TYPE
isImportanceAnnotation(annotation) == Get(annotation, "type") = IMPORTANCE_TYPE
isInterfaceAnnotation(annotation) == Get(annotation, "type") = INTERFACE_TYPE
isCategoryAnnotation(annotation) == Get(annotation, "type") = CATEGORY_TYPE
isAssigneeAnnotation(annotation) == Get(annotation, "type") = ASSIGNEE_TYPE

\* the factories createAnnotationFactory(type) builds
createAnnotation(type, description) ==
  Obj([key \in {"type", "description"} |-> IF key = "type" THEN type ELSE description])
createLinkAnnotation(description) == createAnnotation(LINK_TYPE, description)
createImportanceAnnotation(description) == createAnnotation(IMPORTANCE_TYPE, description)
createInterfaceAnnotation(description) == createAnnotation(INTERFACE_TYPE, description)
createCategoryAnnotation(description) == createAnnotation(CATEGORY_TYPE, description)
createAssigneeAnnotation(description) == createAnnotation(ASSIGNEE_TYPE, description)

-----------------------------------------------------------------------------
(* Validation orchestrator.                                                *)

\* a parameter or destructuring default: used when the value is undefined
OrDefault(v, default) == IF v = Undefined THEN default ELSE v

\* v || [] for an array-typed property
OrEmpty(v) == IF Truthy(v) THEN v.a ELSE <<>>

StrArr(q) == Arr([i \in 1..Len(q) |-> Str(q[i])])

LogAll(logger, errors) == [i \in 1..Len(errors) |-> Logged(logger, errors[i])]

tagError(tag) == "Invalid tag: \"" \o JSToString(tag) \o "\" - not in list of valid tags"

\* the loop body of validateTestTags passing over a tag it has met before
validateTestTagsStep_dedup(acc, tag) ==
  IF Includes(acc.validTags \o acc.invalidTags, tag) THEN acc
  ELSE IF isValidTag(tag)
  THEN [acc EXCEPT !.validTags = Append(@, tag)]
  ELSE [acc EXCEPT !.invalidTags = Append(@, tag), !.errors = Append(@, tagError(tag))]

\* the body of the for..of loop of validateTestTags
validateTestTagsStep(acc, tag) ==
  IF isValidTag(tag)
  THEN [acc EXCEPT !.validTags = Append(@, tag)]
  ELSE [acc EXCEPT !.invalidTags = Append(@, tag), !.errors = Append(@, tagError(tag))]

\* the for..of loop of validateTestTags from element i on
RECURSIVE validateTestTagsLoop(_, _, _)
validateTestTagsLoop(tags, i, acc) ==
  IF i > Len(tags) THEN acc
  ELSE validateTestTagsLoop(tags, i + 1, validateTestTagsStep(acc, tags[i]))

validateTestTags(testInfo, configArg) ==
  LET config == OrDefault(configArg, EmptyObject)
      logWarnings == OrDefault(Get(config, "logWarnings"), Bool(TRUE))
      logger == OrDefault(Get(config, "logger"), ConsoleWarn)
      tags == OrEmpty(Get(testInfo, "tags"))
      r == validateTestTagsLoop(tags, 1, [validTags |-> <<>>, invalidTags |-> <<>>, errors |-> <<>>])
      isValid == Len(r.invalidTags) = 0
  IN [isValid |-> isValid,
      validTags |-> r.validTags,
      invalidTags |-> r.invalidTags,
      errors |-> r.errors,
      logs |-> IF ~isValid /\ Truthy(logWarnings) THEN LogAll(logger, r.errors) ELSE <<>>]

\* the message validateTestAnnotations pushes for a rejected entry
annotationError(annotation) ==
  IF TypeOf(annotation) # "object" \/ annotation = Null
  THEN "Invalid annotation: must be an object, got " \o TypeOf(annotation)
  ELSE IF ~Truthy(Get(annotation, "type"))
  THEN "Invalid annotation: missing \"type\" property"
  ELSE IF ~Truthy(Get(annotation, "description"))
  THEN "Invalid annotation: missing \"description\" property"
  ELSE "Invalid annotation: type=\"" \o JSToString(Get(annotation, "type"))
         \o "\" with description=\"" \o JSToString(Get(annotation, "description"))
         \o "\" - " \o "either invalid type or invalid description value for that type"

\* the loop of validateTestAnnotations leaving at the first rejected entry
RECURSIVE validateTestAnnotationsLoop_failFast(_, _, _)
validateTestAnnotationsLoop_failFast(annotations, i, acc) ==
  IF i > Len(annotations) THEN acc
  ELSE IF isValidAnnotation(annotations[i])
  THEN validateTestAnnotationsLoop_failFast(annotations, i + 1,
         [acc EXCEPT !.validAnnotations = Append(@, annotations[i])])
  ELSE [acc EXCEPT !.invalidAnnotations = Append(@, annotations[i]),
                   !.errors = Append(@, annotationError(annotations[i]))]

\* the body of the for..of loop of validateTestAnnotations
validateTestAnnotationsStep(acc, annotation) ==
  IF isValidAnnotation(annotation)
  THEN [acc EXCEPT !.validAnnotations = Append(@, annotation)]
  ELSE [acc EXCEPT !.invalidAnnotations = Append(@, annotation),
                   !.errors = Append(@, annotationError(annotation))]

\* the for..of loop of validateTestAnnotations from element i on
RECURSIVE validateTestAnnotationsLoop(_, _, _)
validateTestAnnotationsLoop(annotations, i, acc) ==
  IF i > Len(annotations) THEN acc
  ELSE validateTestAnnotationsLoop(annotations, i + 1,
         validateTestAnnotationsStep(acc, annotations[i]))

validateTestAnnotations(testInfo, configArg) ==
  LET config == OrDefault(configArg, EmptyObject)
      logWarnings == OrDefault(Get(config, "logWarnings"), Bool(TRUE))
      logger == OrDefault(Get(config, "logger"), ConsoleWarn)
      annotations == OrEmpty(Get(testInfo, "annotations"))
      r == validateTestAnnotationsLoop(annotations, 1,
             [validAnnotations |-> <<>>, invalidAnnotations |-> <<>>, errors |-> <<>>])
      isValid == Len(r.invalidAnnotations) = 0
  IN [isValid |-> isValid,
      validAnnotations |-> r.validAnnotations,
      invalidAnnotations |-> r.invalidAnnotations,
      errors |-> r.errors,
      logs |-> IF ~isValid /\ Truthy(logWarnings) THEN LogAll(logger, r.errors) ELSE <<>>]

\* validateTestMetadata listing the annotation errors before the tag errors
validateTestMetadata_annotationsFirst(testInfo, configArg) ==
  LET config == OrDefault(configArg, EmptyObject)
      tagResults == validateTestTags(testInfo, config)
      annotationResults == validateTestAnnotations(testInfo, config)
  IN [tags |-> tagResults,
      annotations |-> annotationResults,
      isAllValid |-> tagResults.isValid /\ annotationResults.isValid,
      allErrors |-> annotationResults.errors \o tagResults.errors,
      logs |-> tagResults.logs \o annotationResults.logs]

validateTestMetadata(testInfo, configArg) ==
  LET config == OrDefault(configArg, EmptyObject)
      tagResults == validateTestTags(testInfo, config)
      annotationResults == validateTestAnnotations(testInfo, config)
  IN [tags |-> tagResults,
      annotations |-> annotationResults,
      isAllValid |-> tagResults.isValid /\ annotationResults.isValid,
      allErrors |-> tagResults.errors \o annotationResults.errors,
      logs |-> tagResults.logs \o annotationResults.logs]

DEFAULT_VALIDATION_CONFIG ==
  Obj([failOnValidationError |-> Bool(FALSE), logWarnings |-> Bool(TRUE), logger |-> ConsoleWarn])

\* the object literal { ...a, ...b }: the own keys of a, then those of b
SpreadBoth(a, b) ==
  Obj([key \in Keys(a) \cup Keys(b) |-> IF key \in Keys(b) THEN b.o[key] ELSE a.o[key]])

\* mergeValidationConfig as Object.assign(baseConfig, overrides)
mergeValidationConfig_assigns(baseConfig, overrides) ==
  [out |-> Return(SpreadBoth(baseConfig, overrides)),
   baseConfig |-> SpreadBoth(baseConfig, overrides),
   overrides |-> overrides]

\* the merged configuration, and the two argument objects as the call leaves them
mergeValidationConfig(baseConfig, overrides) ==
  [out |-> Return(SpreadBoth(baseConfig, overrides)),
   baseConfig |-> baseConfig,
   overrides |-> overrides]

\* the hook throwing on every validation error, whatever failOnValidationError is
createMetadataValidationHook_alwaysFails(configArg, testInfo) ==
  LET config == OrDefault(configArg, EmptyObject)
      validationResult == validateTestMetadata(testInfo, config)
  IN [out |-> IF ~validationResult.isAllValid
              THEN Throw("Test metadata validation failed:\n"
                           \o Join(validationResult.allErrors, "\n"))
              ELSE Return(Undefined),
      logs |-> validationResult.logs]

\* one invocation of the hook createMetadataValidationHook(config) returns
createMetadataValidationHook(configArg, testInfo) ==
  LET config == OrDefault(configArg, EmptyObject)
      failOnValidationError == OrDefault(Get(config, "failOnValidationError"), Bool(FALSE))
      validationResult == validateTestMetadata(testInfo, config)
  IN [out |-> IF ~validationResult.isAllValid /\ Truthy(failOnValidationError)
              THEN Throw("Test metadata validation failed:\n"
                           \o Join(validationResult.allErrors, "\n"))
              ELSE Return(Undefined),
      logs |-> validationResult.logs]

------------------------------------------------------------------------------
(* Auto fixture.                                                           *)

\* process.env.CI === 'true' || process.env.FAIL_ON_METADATA_ERRORS === 'true'
FailOnMetadataErrors(environment) ==
  Get(environment, "CI") = Str("true")
    \/ Get(environment, "FAIL_ON_METADATA_ERRORS") = Str("true")

\* the arrow function VALIDATION_CONFIG.logger is initialised with
FixtureLogger == Fn("VALIDATION_CONFIG.logger")

\* VALIDATION_CONFIG as the module is loaded
InitialValidationConfig(environment) ==
  Obj([failOnValidationError |-> Bool(FailOnMetadataErrors(environment)),
       logWarnings |-> Bool(TRUE),
       logger |-> FixtureLogger])

\* the sink calls of logger(message): FixtureLogger writes the message to
\* console.warn behind its prefix
callLogger(logger, message) ==
  IF logger = FixtureLogger
  THEN <<Logged(ConsoleWarn, "[Metadata Validation] " \o message)>>
  ELSE <<Logged(logger, message)>>

\* the config the fixture passes to validateTestMetadata, and VALIDATION_CONFIG
\* as this leaves it
validationArguments(config) ==
  [passed |-> SpreadBoth(config, Obj([logWarnings |-> Bool(FALSE)])),
   kept |-> config]

\* the fixture throwing as soon as it has seen that the metadata is invalid
fixtureLoggingDone_eager(config, errors, i) == TRUE

\* errorMessages.forEach has finished, or VALIDATION_CONFIG.logWarnings is off
fixtureLoggingDone(config, errors, i) ==
  ~Truthy(Get(config, "logWarnings")) \/ i > Len(errors)

fullErrorMessage(testInfo, errorMessages) ==
  "Test metadata validation failed for \"" \o JSToString(Get(testInfo, "title")) \o "\":\n"
    \o Join(errorMessages, "\n")

\* one run of the metadataValidation fixture under config: what it logs, how it
\* ends, and how often it calls use()
metadataValidation(config, testInfo) ==
  LET validationResult == validateTestMetadata(testInfo, validationArguments(config).passed)
      errorMessages == validationResult.allErrors
      logger == Get(config, "logger")
      calls == [i \in 1..Len(errorMessages) |-> callLogger(logger, errorMessages[i])[1]]
      logs == validationResult.logs
                \o (IF ~validationResult.isAllValid /\ Truthy(Get(config, "logWarnings"))
                       /\ Truthy(logger)
                    THEN calls ELSE <<>>)
  IN IF ~validationResult.isAllValid /\ Truthy(Get(config, "failOnValidationError"))
     THEN [out |-> Throw(fullErrorMessage(testInfo, errorMessages)), logs |-> logs, used |-> 0]
     ELSE [out |-> Return(Undefined), logs |-> logs, used |-> 1]

\* Object.assign(VALIDATION_CONFIG, config)
configureValidation(current, config) == SpreadBoth(current, config)

------------------------------------------------------------------------------
(* Command line tool.                                                      *)

ConsoleLog == Fn("console.log")
ConsoleError == Fn("console.error")

\* the text printHelp writes
HelpText ==
  "\nPlaywright Metadata Validator\n\nUsage: npx playwright-meta-validator [options]\n\n"
    \o "Options:\n  -f, --fail-on-error      Exit with error code if validation fails\n"
    \o "  -v, --verbose            Show verbose output\n"
    \o "  -c, --config <file>      Configuration file path\n"
    \o "  -h, --help               Show this help message\n\n"
    \o "This tool validates Playwright test metadata (tags and annotations).\n"
    \o "For file-based validation, use it as a library in your test setup.\n\n"
    \o "Examples:\n  npx playwright-meta-validator --fail-on-error\n"
    \o "  npx playwright-meta-validator --verbose\n"

\* the for loop of parseArgs from argument i on (i counts from 1); --help prints
\* the help and exits the process with code 0
RECURSIVE parseArgsLoop(_, _, _)
parseArgsLoop(arguments, i, options) ==
  IF i > Len(arguments) THEN [options |-> options, exited |-> FALSE]
  ELSE
    LET arg == arguments[i]
    IN CASE arg \in {"--fail-on-error", "-f"} ->
              parseArgsLoop(arguments, i + 1, Set(options, "failOnError", Bool(TRUE)))
         [] arg \in {"--verbose", "-v"} ->
              parseArgsLoop(arguments, i + 1, Set(options, "verbose", Bool(TRUE)))
         [] arg \in {"--config", "-c"} ->
              parseArgsLoop(arguments, i + 2,
                Set(options, "config",
                    IF i + 1 > Len(arguments) THEN Undefined ELSE Str(arguments[i + 1])))
         [] arg \in {"--help", "-h"} -> [options |-> options, exited |-> TRUE]
         [] OTHER -> parseArgsLoop(arguments, i + 1, options)

parseArgs(arguments) == parseArgsLoop(arguments, 1, EmptyObject)

\* path.resolve of a relative path in the working directory
WorkingDirectory == "/work"
resolve(configPath) == WorkingDirectory \o "/" \o configPath

\* the one path a configuration file may be at; file is its content, a string,
\* when there is such a file
ConfigPath == "config.json"
existsSync(file, fullPath) == fullPath = resolve(ConfigPath) /\ file.k = "string"

\* JSON.parse on the texts the configuration file holds
JSONParse(text) ==
  CASE text = "{}" -> Return(EmptyObject)
    [] text = "{\"failOnValidationError\":false,\"logWarnings\":true}" ->
         Return(Obj([failOnValidationError |-> Bool(FALSE), logWarnings |-> Bool(TRUE)]))
    [] text = "{\"failOnValidationError\":true,\"logger\":\"console.log\"}" ->
         Return(Obj([failOnValidationError |-> Bool(TRUE), logger |-> Str("console.log")]))
    [] text = "null" -> Return(Null)
    [] text = "5" -> Return(Num(5))
    [] OTHER -> Throw("SyntaxError")

loadConfig(file, configPath) ==
  LET fullPath == resolve(configPath)
      parsed == JSONParse(file.s)
  IN IF ~existsSync(file, fullPath)
     THEN [out |-> EmptyObject,
           logs |-> <<Logged(ConsoleWarn, "Configuration file not found: " \o fullPath)>>]
     ELSE IF parsed.threw
     THEN [out |-> EmptyObject,
           logs |-> <<Logged(ConsoleWarn,
                             "Failed to load configuration from " \o configPath \o ": "
                               \o parsed.error)>>]
     ELSE [out |-> parsed.ret, logs |-> <<>>]

DemoAnnotation(type, description) == Obj([type |-> Str(type), description |-> Str(description)])

\* the testCases of runDemoValidation
DemoTestCases ==
  <<Obj([title |-> Str("Valid test with good metadata"), file |-> Str("example.spec.ts"),
         tags |-> StrArr(<<"@smoke", "@regression">>),
         annotations |-> Arr(<<DemoAnnotation("importance", "critical"),
                               DemoAnnotation("link", "https://example.com/ticket-123")>>)]),
    Obj([title |-> Str("Test with invalid tag"), file |-> Str("example.spec.ts"),
         tags |-> StrArr(<<"@smoke", "@invalid-tag">>),
         annotations |-> Arr(<<DemoAnnotation("importance", "high")>>)]),
    Obj([title |-> Str("Test with invalid annotation"), file |-> Str("example.spec.ts"),
         tags |-> StrArr(<<"@e2e">>),
         annotations |-> Arr(<<DemoAnnotation("importance", "urgent"),
                               DemoAnnotation("interface", "api")>>)])>>

\* the lines console.log writes for a list of errors
ErrorLines(errors) == [i \in 1..Len(errors) |-> Logged(ConsoleLog, "    - " \o errors[i])]

\* the callback of testCases.forEach: whether the test case has errors, and what
\* is logged
demoTestCase(config, testInfo, index) ==
  LET quiet == SpreadBoth(config, Obj([logWarnings |-> Bool(FALSE)]))
      tagResult == validateTestTags(testInfo, quiet)
      annotationResult == validateTestAnnotations(testInfo, quiet)
      valid == tagResult.isValid /\ annotationResult.isValid
  IN [hasErrors |-> ~valid,
      logs |-> <<Logged(ConsoleLog,
                        "Test " \o ToString(index + 1) \o ": \""
                          \o JSToString(Get(testInfo, "title")) \o "\"")>>
               \o tagResult.logs \o annotationResult.logs
               \o (IF valid THEN <<Logged(ConsoleLog, "  All metadata is valid")>>
                   ELSE <<Logged(ConsoleLog, "  Validation errors found:")>>
                        \o (IF ~tagResult.isValid THEN ErrorLines(tagResult.errors) ELSE <<>>)
                        \o (IF ~annotationResult.isValid
                            THEN ErrorLines(annotationResult.errors) ELSE <<>>))
               \o <<Logged(ConsoleLog, "")>>]

\* the flags overwriting only what the configuration file does not set
applyFlags_keepsLoaded(config, options) ==
  SpreadBoth(Obj([failOnValidationError |-> Get(options, "failOnError"),
                  logWarnings |-> Get(options, "verbose")]),
             config)

\* config.failOnValidationError = options.failOnError;
\* config.logWarnings = options.verbose
applyFlags(config, options) ==
  Set(Set(config, "failOnValidationError", Get(options, "failOnError")),
      "logWarnings", Get(options, "verbose"))

Rule == "=================================================="

\* what main logs after the validation
Epilogue(success) ==
  <<Logged(ConsoleLog, Rule),
    Logged(ConsoleLog, IF success THEN "Demo validation completed successfully"
                       ELSE "Demo validation found errors"),
    Logged(ConsoleLog, "\nTo use this library in your Playwright tests:"),
    Logged(ConsoleLog,
           "1. Import: import { createMetadataValidationHook } from \"playwright-meta-schema\""),
    Logged(ConsoleLog,
           "2. Add hook: test.beforeEach(createMetadataValidationHook({ failOnValidationError: true }))")>>

\* what main logs when it catches the TypeError of an assignment to a config
\* that is no object
AssignmentError == Logged(ConsoleError, "Error during validation: TypeError")

-----------------------------------------------------------------------------
(* Metadata composer.                                                      *)

IsValidLink(link) == isValidAnnotation(link) /\ isLinkAnnotation(link)

\* validateTestCaseMetadata checking the two required fields only
validateTestCaseMetadata_requiredOnly(metadata) ==
  IF TypeOf(metadata) # "object" \/ metadata = Null THEN Return(Bool(FALSE))
  ELSE
    LET importance == Get(metadata, "importance")
        category == Get(metadata, "category")
    IN Return(Bool(/\ Truthy(importance) /\ isValidAnnotation(importance)
                   /\ isImportanceAnnotation(importance)
                   /\ Truthy(category) /\ isValidAnnotation(category)
                   /\ isCategoryAnnotation(category)))

validateTestCaseMetadata(metadata) ==
  IF TypeOf(metadata) # "object" \/ metadata = Null THEN Return(Bool(FALSE))
  ELSE
    LET meta == metadata
        importance == Get(meta, "importance")
        category == Get(meta, "category")
        assignee == Get(meta, "assignee")
        interface == Get(meta, "interface")
        links == Get(meta, "links")
        tags == Get(meta, "tags")
    IN IF ~Truthy(importance) \/ ~isValidAnnotation(importance)
            \/ ~isImportanceAnnotation(importance)
       THEN Return(Bool(FALSE))
       ELSE IF ~Truthy(category) \/ ~isValidAnnotation(category)
                 \/ ~isCategoryAnnotation(category)
       THEN Return(Bool(FALSE))
       ELSE IF Truthy(assignee)
                 /\ (~isValidAnnotation(assignee) \/ ~isAssigneeAnnotation(assignee))
       THEN Return(Bool(FALSE))
       ELSE IF Truthy(interface)
                 /\ (~isValidAnnotation(interface) \/ ~isInterfaceAnnotation(interface))
       THEN Return(Bool(FALSE))
       ELSE IF Truthy(links)
                 /\ (~IsArray(links) \/ ~(\A i \in 1..Len(links.a) : IsValidLink(links.a[i])))
       THEN Return(Bool(FALSE))
       ELSE IF Truthy(tags) /\ ~IsArray(tags)
       \* areValidTags(meta.tags as string[]) calls tags.every on a value with no such method
       THEN Throw("TypeError: tags.every is not a function")
       ELSE IF Truthy(tags) /\ ~areValidTags(tags.a)
       THEN Return(Bool(FALSE))
       ELSE Return(Bool(TRUE))

\* createTestCaseMetadataFromArrays giving up only when both required annotations
\* are missing
createTestCaseMetadataFromArrays_bothMissing(tags, annotations) ==
  LET validTags == createValidTagsArray(tags)
      validAnnotations == SelectSeq(annotations, isValidAnnotation)
      importance == FirstOrUndefined(SelectSeq(validAnnotations, isImportanceAnnotation))
      category == FirstOrUndefined(SelectSeq(validAnnotations, isCategoryAnnotation))
  IN IF ~Truthy(importance) /\ ~Truthy(category)
     THEN [out |-> Return(Null),
           logs |-> Append(validTags.logs,
                      Logged(ConsoleWarn,
                             "Missing required annotations: importance and category are required"))]
     ELSE [out |-> Return(Obj([key \in {"importance", "category"} |->
                                 IF key = "importance" THEN importance ELSE category])),
           logs |-> validTags.logs]

createTestCaseMetadataFromArrays(tags, annotations) ==
  LET validTags == createValidTagsArray(tags)
      validAnnotations == SelectSeq(annotations, isValidAnnotation)
      importance == FirstOrUndefined(SelectSeq(validAnnotations, isImportanceAnnotation))
      category == FirstOrUndefined(SelectSeq(validAnnotations, isCategoryAnnotation))
      assignee == FirstOrUndefined(SelectSeq(validAnnotations, isAssigneeAnnotation))
      interfaceAnnotation ==
        FirstOrUndefined(SelectSeq(validAnnotations, isInterfaceAnnotation))
      links == SelectSeq(validAnnotations, isLinkAnnotation)
      metadata0 ==
        Obj([key \in {"importance", "category", "tags"} |->
               CASE key = "importance" -> importance
                 [] key = "category" -> category
                 [] key = "tags" ->
                      IF Len(validTags.ret) > 0 THEN Arr(validTags.ret) ELSE Undefined])
      metadata1 == IF Truthy(assignee) THEN Set(metadata0, "assignee", assignee) ELSE metadata0
      metadata2 ==
        IF Truthy(interfaceAnnotation)
        THEN Set(metadata1, "interface", interfaceAnnotation) ELSE metadata1
      metadata3 == IF Len(links) > 0 THEN Set(metadata2, "links", Arr(links)) ELSE metadata2
  IN IF ~Truthy(importance) \/ ~Truthy(category)
     THEN [out |-> Return(Null),
           logs |-> Append(validTags.logs,
                      Logged(ConsoleWarn,
                             "Missing required annotations: importance and category are required"))]
     ELSE [out |-> Return(metadata3), logs |-> validTags.logs]

\* whether the spread ...v can iterate v
IsIterable(v) == v.k \in {"array", "string"}

\* the elements the spread ...v yields: the elements of an array, the characters
\* of a string (of one character at most in this model)
Spread(v) == IF v.k = "array" THEN v.a ELSE IF v.s = "" THEN <<>> ELSE <<v>>

\* createTestCaseMetadata without the length tests on links and tags
createTestCaseMetadata_keepsEmpty(input) ==
  LET assignee == Get(input, "assignee")
      interface == Get(input, "interface")
      links == Get(input, "links")
      tags == Get(input, "tags")
      validTags == createValidTagsArray(OrEmpty(tags))
      metadata0 ==
        Obj([key \in {"importance", "category"} |->
               IF key = "importance" THEN createImportanceAnnotation(Get(input, "importance"))
               ELSE createCategoryAnnotation(Get(input, "category"))])
      metadata1 ==
        IF Truthy(assignee)
        THEN Set(metadata0, "assignee", createAssigneeAnnotation(assignee)) ELSE metadata0
      metadata2 ==
        IF Truthy(interface)
        THEN Set(metadata1, "interface", createInterfaceAnnotation(interface)) ELSE metadata1
      metadata3 ==
        IF Truthy(links)
        THEN Set(metadata2, "links",
                 Arr([i \in 1..Len(links.a) |-> createLinkAnnotation(links.a[i])]))
        ELSE metadata2
      metadata4 == IF Truthy(tags) THEN Set(metadata3, "tags", Arr(validTags.ret)) ELSE metadata3
  IN [out |-> Return(metadata4), logs |-> IF Truthy(tags) THEN validTags.logs ELSE <<>>]

\* createTestCaseMetadata starting from a copy of the input ({...input}), so that
\* the caller's additional keys reach the record
createTestCaseMetadata_spread(input) ==
  LET assignee == Get(input, "assignee")
      interface == Get(input, "interface")
      links == Get(input, "links")
      tags == Get(input, "tags")
      hasLinks == Truthy(links) /\ Len(links.a) > 0
      hasTags == Truthy(tags) /\ Len(tags.a) > 0
      validTags == createValidTagsArray(OrEmpty(tags))
      extra == Keys(input) \ {"importance", "category", "assignee", "interface", "links", "tags"}
      metadata0 ==
        Obj([key \in {"importance", "category"} \cup extra |->
               CASE key = "importance" -> createImportanceAnnotation(Get(input, "importance"))
                 [] key = "category" -> createCategoryAnnotation(Get(input, "category"))
                 [] OTHER -> input.o[key]])
      metadata1 ==
        IF Truthy(assignee)
        THEN Set(metadata0, "assignee", createAssigneeAnnotation(assignee)) ELSE metadata0
      metadata2 ==
        IF Truthy(interface)
        THEN Set(metadata1, "interface", createInterfaceAnnotation(interface)) ELSE metadata1
      metadata3 ==
        IF hasLinks
        THEN Set(metadata2, "links",
                 Arr([i \in 1..Len(links.a) |-> createLinkAnnotation(links.a[i])]))
        ELSE metadata2
      metadata4 == IF hasTags THEN Set(metadata3, "tags", Arr(validTags.ret)) ELSE metadata3
  IN [out |-> Return(metadata4), logs |-> IF hasTags THEN validTags.logs ELSE <<>>]

createTestCaseMetadata(input) ==
  LET assignee == Get(input, "assignee")
      interface == Get(input, "interface")
      links == Get(input, "links")
      tags == Get(input, "tags")
      hasLinks == Truthy(links) /\ Len(links.a) > 0
      hasTags == Truthy(tags) /\ Len(tags.a) > 0
      validTags == createValidTagsArray(OrEmpty(tags))
      metadata0 ==
        Obj([key \in {"importance", "category"} |->
               IF key = "importance" THEN createImportanceAnnotation(Get(input, "importance"))
               ELSE createCategoryAnnotation(Get(input, "category"))])
      metadata1 ==
        IF Truthy(assignee)
        THEN Set(metadata0, "assignee", createAssigneeAnnotation(assignee)) ELSE metadata0
      metadata2 ==
        IF Truthy(interface)
        THEN Set(metadata1, "interface", createInterfaceAnnotation(interface)) ELSE metadata1
      metadata3 ==
        IF hasLinks
        THEN Set(metadata2, "links",
                 Arr([i \in 1..Len(links.a) |-> createLinkAnnotation(links.a[i])]))
        ELSE metadata2
      metadata4 == IF hasTags THEN Set(metadata3, "tags", Arr(validTags.ret)) ELSE metadata3
  IN [out |-> Return(metadata4), logs |-> IF hasTags THEN validTags.logs ELSE <<>>]

\* extractAnnotationsFromMetadata pushing the links before the optional annotations
extractAnnotationsFromMetadata_linksFirst(metadata) ==
  LET assignee == Get(metadata, "assignee")
      interface == Get(metadata, "interface")
      links == Get(metadata, "links")
  IN Return(Arr(<<Get(metadata, "importance"), Get(metadata, "category")>>
                \o (IF Truthy(links) THEN Spread(links) ELSE <<>>)
                \o (IF Truthy(assignee) THEN <<assignee>> ELSE <<>>)
                \o (IF Truthy(interface) THEN <<interface>> ELSE <<>>)))

\* extractAnnotationsFromMetadata returning the required annotations only
extractAnnotationsFromMetadata_requiredOnly(metadata) ==
  Return(Arr(<<Get(metadata, "importance"), Get(metadata, "category")>>))

extractAnnotationsFromMetadata(metadata) ==
  LET assignee == Get(metadata, "assignee")
      interface == Get(metadata, "interface")
      links == Get(metadata, "links")
      annotations0 == <<Get(metadata, "importance"), Get(metadata, "category")>>
      annotations1 == IF Truthy(assignee) THEN Append(annotations0, assignee) ELSE annotations0
      annotations2 == IF Truthy(interface) THEN Append(annotations1, interface) ELSE annotations1
      annotations3 == IF Truthy(links) THEN annotations2 \o Spread(links) ELSE annotations2
  IN Return(Arr(annotations3))

\* metadata.tags || []
extractTagsFromMetadata(metadata) ==
  LET tags == Get(metadata, "tags")
  IN Return(IF Truthy(tags) THEN tags ELSE Arr(<<>>))

\* hasRequiredMetadata content with either required field
hasRequiredMetadata_either(metadata) ==
  Truthy(Get(metadata, "importance")) \/ Truthy(Get(metadata, "category"))

hasRequiredMetadata(metadata) ==
  Truthy(Get(metadata, "importance")) /\ Truthy(Get(metadata, "category"))

\* the inner loop leaving out the entries whose value is undefined
CopyEntries_skipsUndefined(merged, metadata) ==
  LET copied == {key \in Keys(metadata) \ {"tags"} : metadata.o[key] # Undefined}
  IN Obj([key \in Keys(merged) \cup copied |->
            IF key \in copied THEN metadata.o[key] ELSE merged.o[key]])

\* the inner loop keeping a key merged already holds (first writer wins)
CopyEntries_firstWins(merged, metadata) ==
  LET copied == Keys(metadata) \ {"tags"}
  IN Obj([key \in Keys(merged) \cup copied |->
            IF key \in Keys(merged) THEN merged.o[key] ELSE metadata.o[key]])

\* merged after the inner loop over Object.entries(metadata) has copied every
\* key but tags
CopyEntries(merged, metadata) ==
  LET copied == Keys(metadata) \ {"tags"}
  IN Obj([key \in Keys(merged) \cup copied |->
            IF key \in copied THEN metadata.o[key] ELSE merged.o[key]])

\* the error of reading metadata.tags when metadata is null or undefined
NoTagsOf(metadata) ==
  "TypeError: Cannot read properties of " \o JSToString(metadata) \o " (reading 'tags')"

\* the loop treating tags like every other key: a later partial's tags replace
\* the tags collected so far
RECURSIVE mergeLoop_tagsOverwrite(_, _, _)
mergeLoop_tagsOverwrite(metadataObjects, i, acc) ==
  IF i > Len(metadataObjects) THEN acc
  ELSE
    LET metadata == metadataObjects[i]
        tags == Get(metadata, "tags")
    IN IF metadata \in {Null, Undefined}
       THEN [acc EXCEPT !.threw = TRUE, !.error = NoTagsOf(metadata)]
       ELSE IF Truthy(tags) /\ ~IsIterable(tags)
       THEN [acc EXCEPT !.threw = TRUE]
       ELSE mergeLoop_tagsOverwrite(metadataObjects, i + 1,
              [acc EXCEPT
                 !.allTags = IF Truthy(tags) THEN Spread(tags) ELSE @,
                 !.merged = CopyEntries(@, metadata)])

\* the for..of loop of mergeTestCaseMetadata from partial i on
RECURSIVE mergeLoop(_, _, _)
mergeLoop(metadataObjects, i, acc) ==
  IF i > Len(metadataObjects) THEN acc
  ELSE
    LET metadata == metadataObjects[i]
        tags == Get(metadata, "tags")
    IN IF metadata \in {Null, Undefined}
       THEN [acc EXCEPT !.threw = TRUE, !.error = NoTagsOf(metadata)]
       ELSE IF Truthy(tags) /\ ~IsIterable(tags)
       THEN [acc EXCEPT !.threw = TRUE]
       ELSE mergeLoop(metadataObjects, i + 1,
              [acc EXCEPT
                 !.allTags = IF Truthy(tags) THEN @ \o Spread(tags) ELSE @,
                 !.merged = CopyEntries(@, metadata)])

mergeTestCaseMetadata(metadataObjects) ==
  LET acc == mergeLoop(metadataObjects, 1,
               [merged |-> EmptyObject, allTags |-> <<>>, threw |-> FALSE,
                error |-> "TypeError: metadata.tags is not iterable"])
      validTags == createValidTagsArray(acc.allTags)
      hasTags == Len(acc.allTags) > 0
      merged == IF hasTags THEN Set(acc.merged, "tags", Arr(validTags.ret)) ELSE acc.merged
      tagLogs == IF hasTags THEN validTags.logs ELSE <<>>
  IN IF acc.threw
     THEN [out |-> Throw(acc.error), logs |-> <<>>]
     ELSE IF ~hasRequiredMetadata(merged)
     THEN [out |-> Return(Null),
           logs |-> Append(tagLogs,
                      Logged(ConsoleWarn,
                             "Merged metadata missing required fields: importance and category"))]
     ELSE [out |-> Return(merged), logs |-> tagLogs]

\* mergeTestCaseMetadata(...) with the outcome of an inner call as one of its
\* arguments: an inner call that throws ends the expression, and the diagnostics
\* of the inner call come first
mergeNested(inner, before, after) ==
  IF inner.out.threw THEN inner
  ELSE LET outer == mergeTestCaseMetadata(before \o <<inner.out.ret>> \o after)
       IN [out |-> outer.out, logs |-> inner.logs \o outer.logs]

\* the three ways of merging a, b and c, and the two inner merges
mergeGroupings(a, b, c) ==
  LET ab == mergeTestCaseMetadata(<<a, b>>)
      bc == mergeTestCaseMetadata(<<b, c>>)
  IN [ab |-> ab.out,
      bc |-> bc.out,
      flat |-> mergeTestCaseMetadata(<<a, b, c>>).out,
      left |-> mergeNested(ab, <<>>, <<c>>).out,
      right |-> mergeNested(bc, <<a>>, <<>>).out]

-----------------------------------------------------------------------------
(* The arguments the calls are drawn from.                                 *)

\* marks a key the caller leaves out of an object literal
Absent == [k |-> "absent"]

\* the object literal with the keys of f that are not left out
MkObj(f) == Obj([key \in {x \in DOMAIN f : f[x] # Absent} |-> f[key]])

SeqsUpTo(S, n) == UNION {[1..m -> S] : m \in 0..n}

\* the strings isValidTag is tried on: every word of both vocabularies with the
\* prefix, and near misses
TagCandidates ==
  {"@skip", "@fail", "@fixme", "@slow", "@fast", "@smoke", "@regression", "@sanity", "@e2e",
   "smoke", "skip", "@Smoke", "@SMOKE", "@smoke ", " @smoke", "@@smoke", "@", "",
   "@invalid-tag", "@critical", "@ui", "#smoke", "@smok", "@smokes"}

TypeCandidates ==
  {Absent, Undefined, Null, Num(1), Str(""), Str("priority"), Str("Importance"),
   LINK_TYPE, IMPORTANCE_TYPE, INTERFACE_TYPE, CATEGORY_TYPE, ASSIGNEE_TYPE}

DescriptionCandidates ==
  {Absent, Undefined, Null, Num(0), Str(""), Str("urgent"), Str("Critical"), Str("functional"),
   Str("https://example.com"), Str("dev@example.com")}
  \cup {ImportancePrimitives[i] : i \in 1..Len(ImportancePrimitives)}
  \cup {InterfaceTypePrimitives[i] : i \in 1..Len(InterfaceTypePrimitives)}
  \cup {CategoryPrimitives[i] : i \in 1..Len(CategoryPrimitives)}

\* the values isValidAnnotation is tried on
AnnotationCandidates ==
  {Undefined, Null, Str("importance"), Num(5), Bool(TRUE), Arr(<<>>)}
  \cup {MkObj([type |-> t, description |-> d]) : t \in TypeCandidates, d \in DescriptionCandidates}

Imp1 == createImportanceAnnotation(Str("critical"))
Imp2 == createImportanceAnnotation(Str("low"))
ImpBad == createImportanceAnnotation(Str("urgent"))
Cat1 == createCategoryAnnotation(Str("unit"))
CatBad == createCategoryAnnotation(Str("functional"))
Asg1 == createAssigneeAnnotation(Str("dev@example.com"))
Asg2 == createAssigneeAnnotation(Str(""))
Ifc1 == createInterfaceAnnotation(Str("api"))
Link1 == createLinkAnnotation(Str("https://example.com"))
Link2 == createLinkAnnotation(Str(""))

\* tags and annotations of a testInfo
TagPool == {Str("@smoke"), Str("@e2e"), Str("@invalid-tag")}
AnnotationPool ==
  {Null, Str("note"), MkObj([type |-> Absent, description |-> Str("x")]),
   MkObj([type |-> IMPORTANCE_TYPE, description |-> Absent]),
   createImportanceAnnotation(Str("")), ImpBad, Imp1, Link2}

\* the testInfo records with m annotations and at most n tags; either key may be
\* left out instead of holding an empty array
TestInfosOf(m, n) ==
  {MkObj([tags |-> t, annotations |-> a]) :
     t \in {Absent} \cup {Arr(q) : q \in SeqsUpTo(TagPool, n)},
     a \in {Arr(q) : q \in [1..m -> AnnotationPool]} \cup (IF m = 0 THEN {Absent} ELSE {})}

CustomLogger == Fn("customLogger")

\* the configurations: the argument left out, or an object with any of the options
LogConfigs ==
  {Undefined}
  \cup {MkObj([logWarnings |-> w, logger |-> l]) :
          w \in {Absent, Bool(TRUE), Bool(FALSE)}, l \in {Absent, CustomLogger}}

HookConfigs ==
  {Undefined}
  \cup {MkObj([failOnValidationError |-> f, logWarnings |-> w, logger |-> l]) :
          f \in {Absent, Bool(TRUE), Bool(FALSE)},
          w \in {Absent, Bool(TRUE), Bool(FALSE)}, l \in {Absent, CustomLogger}}

\* the arguments of createTestCaseMetadataFromArrays
ComposePool == {Null, ImpBad, Imp1, Imp2, Cat1, Asg1, Asg2, Ifc1, Link1, Link2}

\* the values validateTestCaseMetadata is tried on: values that are no record, and
\* records with every required field and tags value, with every optional field
RequiredCandidates ==
  {[importance |-> i, category |-> c] :
     i \in {Absent, Imp1, ImpBad, Cat1, Str("critical")}, c \in {Absent, Cat1, CatBad}}
TagsCandidates ==
  {Absent, Undefined, Arr(<<>>), StrArr(<<"@smoke", "@e2e">>),
   StrArr(<<"@smoke", "@invalid-tag">>), Str("@smoke"), Str(""), Num(5),
   Obj([key \in {"0"} |-> Str("@smoke")])}
MetadataCandidates ==
  {Undefined, Null, Str("string"), Num(123), Arr(<<>>)}
  \cup {MkObj([importance |-> r.importance, category |-> r.category, tags |-> t]) :
          r \in RequiredCandidates, t \in TagsCandidates}
  \cup {MkObj([importance |-> Imp1, category |-> Cat1, assignee |-> a, interface |-> f,
               links |-> l, tags |-> t, customField |-> x]) :
          a \in {Absent, Asg1, Link1, Str("")},
          f \in {Absent, Ifc1, createInterfaceAnnotation(Str("other")), Null},
          l \in {Absent, Arr(<<>>), Arr(<<Link1, Link2>>), Arr(<<Link1, Asg1>>), Link1, Num(0)},
          t \in TagsCandidates,
          x \in {Absent, Num(7)}}

\* the optional fields of a partial record
NoOptionalField ==
  [assignee |-> Absent, interface |-> Absent, links |-> Absent, tags |-> Absent,
   customField |-> Absent]
OptionalFields ==
  {NoOptionalField,
   [NoOptionalField EXCEPT !.tags = Undefined],
   [NoOptionalField EXCEPT !.links = Arr(<<Link1>>), !.tags = Arr(<<>>)],
   [NoOptionalField EXCEPT !.links = Arr(<<Link2, Link1>>), !.tags = StrArr(<<"@smoke">>),
                           !.assignee = Asg1],
   [NoOptionalField EXCEPT !.tags = StrArr(<<"@invalid-tag", "@e2e">>), !.customField = Link1],
   [NoOptionalField EXCEPT !.tags = StrArr(<<"@invalid-tag">>), !.assignee = Asg2,
                           !.interface = Ifc1]}

\* the partial records mergeTestCaseMetadata is given: those of the declared type
\* Partial<TestCaseMetadata> ..
TypedPartials ==
  {MkObj([importance |-> i, category |-> c, assignee |-> v.assignee,
          interface |-> v.interface, links |-> v.links, tags |-> v.tags,
          customField |-> v.customField]) :
     i \in {Absent, Undefined, Imp1, Imp2}, c \in {Absent, Cat1}, v \in OptionalFields}


\* .. and those whose tags value is no array
UntypedPartials ==
  {MkObj([importance |-> Imp1, category |-> c, tags |-> t]) :
     c \in {Absent, Cat1}, t \in {Num(5), Str("x"), Bool(TRUE), EmptyObject}}

\* the typed inputs of createTestCaseMetadata with the links q
TypedInputsOf(q) ==
  {MkObj([importance |-> i, category |-> c, assignee |-> a, interface |-> f,
          links |-> q, tags |-> t, customField |-> x]) :
     i \in {Str("low"), Str("critical")},
     c \in {Str("unit"), Str("performance")},
     a \in {Absent, Str("dev@example.com"), Str("")},
     f \in {Absent, Str("api")},
     t \in {Absent, Arr(<<>>), StrArr(<<"@smoke">>), StrArr(<<"@invalid-tag">>),
            StrArr(<<"@smoke", "@invalid-tag", "@smoke">>)},
     x \in {Absent, Str("custom-value")}}
LinkStrings == {Str("https://docs.example.com"), Str("")}

\* the metadata records of type TestCaseMetadata with the links q
TypedMetadataOf(q) ==
  {MkObj([importance |-> Imp1, category |-> Cat1, assignee |-> a, interface |-> f,
          links |-> q, tags |-> t, customField |-> x]) :
     a \in {Absent, Undefined, Asg1, Asg2},
     f \in {Absent, Ifc1},
     t \in {Absent, Undefined, Arr(<<>>), StrArr(<<"@smoke", "@e2e">>)},
     x \in {Absent, Link1}}
LinkOptions(S) == {Absent} \cup {Arr(q) : q \in SeqsUpTo(S, MaxLinks)}

\* the entries createValidAnnotationsArray is given
FilterPool ==
  {Null, Str("note"), MkObj([type |-> Num(1), description |-> Str("x")]), ImpBad, Imp1, Link2}

\* the base configurations and the overrides mergeValidationConfig is given
BaseConfigs ==
  {DEFAULT_VALIDATION_CONFIG, EmptyObject}
  \cup {MkObj([failOnValidationError |-> f, logWarnings |-> w, logger |-> l]) :
          f \in {Bool(TRUE), Bool(FALSE)},
          w \in {Bool(TRUE), Bool(FALSE)}, l \in {Absent, CustomLogger}}
OverrideConfigs ==
  {Undefined}
  \cup {MkObj([failOnValidationError |-> f, logWarnings |-> w, logger |-> l]) :
          f \in {Absent, Bool(TRUE), Bool(FALSE), Undefined},
          w \in {Absent, Bool(TRUE), Bool(FALSE)}, l \in {Absent, CustomLogger, Undefined}}

\* the environments the fixture module is loaded in
Environments ==
  {MkObj([CI |-> c, FAIL_ON_METADATA_ERRORS |-> f]) :
     c \in {Absent, Str("true"), Str("false")}, f \in {Absent, Str("true")}}
NoEnvironment == EmptyObject

\* the tests the fixture and the hook run before
FixtureTestInfos ==
  {MkObj([title |-> Str("empty")]),
   MkObj([title |-> Str("login"), tags |-> StrArr(<<"@smoke">>), annotations |-> Arr(<<Imp1>>)]),
   MkObj([title |-> Str("search"), tags |-> StrArr(<<"@invalid-tag">>)]),
   MkObj([title |-> Str("checkout"), tags |-> StrArr(<<"@invalid-tag", "@smoke">>),
          annotations |-> Arr(<<ImpBad>>)])}

\* the arguments of configureValidation
ConfigureOverrides ==
  {MkObj([failOnValidationError |-> f, logWarnings |-> w, logger |-> l]) :
     f \in {Absent, Bool(TRUE), Bool(FALSE)},
     w \in {Absent, Bool(TRUE), Bool(FALSE)}, l \in {Absent, CustomLogger, Undefined}}

\* the configurations of the hooks that run in a process with the fixture
SessionHookConfigs ==
  {Undefined, Obj([failOnValidationError |-> Bool(TRUE)]),
   Obj([logWarnings |-> Bool(TRUE), logger |-> CustomLogger])}

\* the words of a command line
ArgPool == {"--fail-on-error", "-v", "--config", "--help", "config.json", "missing.json"}

\* the content of the configuration file, Absent when there is no such file
ConfigFiles ==
  {Absent, Str("{ invalid }"),
   Str("{\"failOnValidationError\":false,\"logWarnings\":true}"),
   Str("{\"failOnValidationError\":true,\"logger\":\"console.log\"}"),
   Str("null"), Str("5")}

\* the partials merged under the three groupings
GroupPool ==
  {EmptyObject,
   MkObj([importance |-> Imp1, category |-> Cat1]),
   MkObj([importance |-> Imp2, category |-> Cat1, assignee |-> Asg1,
          tags |-> StrArr(<<"@smoke">>)]),
   MkObj([importance |-> Imp1, category |-> Cat1, tags |-> StrArr(<<"@invalid-tag">>)]),
   MkObj([category |-> Cat1, tags |-> StrArr(<<"@e2e", "@invalid-tag">>)]),
   MkObj([importance |-> Imp2]),
   MkObj([importance |-> Imp2, category |-> Cat1, assignee |-> Undefined,
          links |-> Arr(<<Link1>>), tags |-> Arr(<<>>)]),
   MkObj([importance |-> Undefined, category |-> Cat1, links |-> Arr(<<Link2, Link1>>)])}

IsTypedPartial(p) ==
  Get(p, "tags") = Undefined \/ IsArray(Get(p, "tags"))

-----------------------------------------------------------------------------
(* The state machine: one call of one exported function.                   *)

\* the local variables of a validator at its entry: the position of its for..of
\* loop and the arrays it fills; the other functions are modelled in one step
TagLocals == [i |-> 1, acc |-> [validTags |-> <<>>, invalidTags |-> <<>>, errors |-> <<>>]]
AnnotationLocals ==
  [i |-> 1, acc |-> [validAnnotations |-> <<>>, invalidAnnotations |-> <<>>, errors |-> <<>>]]
NoLocals == [i |-> 1]
\* the fixture before its first statement: the loop position of forEach, the
\* validation result, and the number of calls of use()
FixtureLocals == [i |-> 1, pc |-> "validate", isAllValid |-> TRUE, errorMessages |-> <<>>,
                  used |-> 0]
\* main before its first statement: the statement it is at, the options and the
\* config once it has them, and the index and hasErrors of testCases.forEach
MainLocals == [i |-> 1, pc |-> "parseArgs", options |-> EmptyObject, config |-> Undefined,
               hasErrors |-> FALSE]
InitialLocals(o) ==
  CASE o = "validateTestTags" -> TagLocals
    [] o = "validateTestAnnotations" -> AnnotationLocals
    [] o = "metadataValidation" -> FixtureLocals
    [] o = "main" -> MainLocals
    [] OTHER -> NoLocals

\* the call op(args) has been made and has not returned
Called(o, a) ==
  /\ op = o
  /\ args = a
  /\ phase = "called"
  /\ locals = InitialLocals(o)
  /\ result = Return(Undefined)
  /\ log = <<>>
  /\ env = NoEnvironment
  /\ VALIDATION_CONFIG = InitialValidationConfig(NoEnvironment)

\* the fixture module has been loaded in environment e and the fixture is about
\* to run before the test t
Loaded(e, t) ==
  /\ op = "metadataValidation"
  /\ args = <<t>>
  /\ phase = "called"
  /\ locals = FixtureLocals
  /\ result = Return(Undefined)
  /\ log = <<>>
  /\ env = e
  /\ VALIDATION_CONFIG = InitialValidationConfig(e)

Init ==
  \/ \E s \in TagCandidates : Called("isValidTag", <<Str(s)>>)
  \/ \E a \in AnnotationCandidates : Called("isValidAnnotation", <<a>>)
  \/ \E t \in TestInfosOf(0, MaxItems), c \in LogConfigs :
       Called("validateTestTags", <<t, c>>)
  \/ \E m \in 0..MaxItems : \E t \in TestInfosOf(m, 0), c \in LogConfigs :
       Called("validateTestAnnotations", <<t, c>>)
  \/ \E m \in 0..MaxItems : \E t \in TestInfosOf(m, MaxItems - m), c \in LogConfigs :
       Called("validateTestMetadata", <<t, c>>)
  \/ \E m \in 0..MaxItems : \E t \in TestInfosOf(m, MaxItems - m), c \in HookConfigs :
       Called("createMetadataValidationHook", <<c, t>>)
  \/ \E m \in MetadataCandidates : Called("validateTestCaseMetadata", <<m>>)
  \/ \E m \in 0..MaxComposeItems :
       \E a \in [1..m -> ComposePool], t \in SeqsUpTo(TagPool, MaxComposeItems - m) :
         Called("createTestCaseMetadataFromArrays", <<Arr(t), Arr(a)>>)
  \/ \E n \in 0..MaxPartials : \E a \in [1..n -> TypedPartials] :
       Called("mergeTestCaseMetadata", a)
  \/ \E q \in LinkOptions(LinkStrings) : \E i \in TypedInputsOf(q) :
       Called("createTestCaseMetadata", <<i>>)
  \/ \E q \in LinkOptions({Link1, Link2}) : \E m \in TypedMetadataOf(q) :
       \E o \in {"extractAnnotationsFromMetadata", "extractTagsFromMetadata"} :
         Called(o, <<m>>)
  \/ \E t \in SeqsUpTo(TagPool, MaxComposeItems) : Called("createValidTagsArray", <<Arr(t)>>)
  \/ \E a \in SeqsUpTo(FilterPool, MaxComposeItems) :
       Called("createValidAnnotationsArray", <<Arr(a)>>)
  \/ \E b \in BaseConfigs, o \in OverrideConfigs : Called("mergeValidationConfig", <<b, o>>)
  \/ \E a \in GroupPool, b \in GroupPool, c \in GroupPool :
       Called("mergeGroupings", <<a, b, c>>)
  \/ \E e \in Environments, t \in FixtureTestInfos : Loaded(e, t)
  \/ \E argv \in SeqsUpTo(ArgPool, MaxArgs), file \in ConfigFiles :
       Called("main", <<argv, file>>)
  \/ \E p \in UntypedPartials, q \in {<<>>, <<MkObj([importance |-> Imp2, tags |-> StrArr(<<"@smoke">>)])>>} :
       Called("mergeTestCaseMetadata", q \o <<p>>)

\* a pure predicate returns its boolean and logs nothing
ReturnsBool(o, b) ==
  /\ phase = "called"
  /\ op = o
  /\ phase' = "returned"
  /\ result' = Return(Bool(b))
  /\ log' = <<>>
  /\ UNCHANGED <<op, args, locals, env, VALIDATION_CONFIG>>

\* a function returns (or throws) r.out and logs r.logs
Returns(o, r) ==
  /\ phase = "called"
  /\ op = o
  /\ phase' = "returned"
  /\ result' = r.out
  /\ log' = r.logs
  /\ UNCHANGED <<op, args, locals, env, VALIDATION_CONFIG>>

\* a validator returns its result record r and logs r.logs
ReturnsRecord(o, r) ==
  /\ phase = "called"
  /\ op = o
  /\ phase' = "returned"
  /\ result' = Return(r)
  /\ log' = r.logs
  /\ UNCHANGED <<op, args, locals, env, VALIDATION_CONFIG>>

IsValidTagCall == op = "isValidTag" /\ ReturnsBool("isValidTag", isValidTag(args[1]))

IsValidAnnotationCall ==
  op = "isValidAnnotation" /\ ReturnsBool("isValidAnnotation", isValidAnnotation(args[1]))

\* const { logWarnings = true, logger = console.warn } = config
LogWarningsOf(configArg) ==
  OrDefault(Get(OrDefault(configArg, EmptyObject), "logWarnings"), Bool(TRUE))
LoggerOf(configArg) == OrDefault(Get(OrDefault(configArg, EmptyObject), "logger"), ConsoleWarn)

\* the logging test made inside the loop: an error is logged as soon as it is found
LoggingDue_eager(total, classified, rejected, logWarnings) ==
  rejected > 0 /\ Truthy(logWarnings)

\* if (!isValid && logWarnings), placed after the loop over the total items
LoggingDue(total, classified, rejected, logWarnings) ==
  classified = total /\ rejected > 0 /\ Truthy(logWarnings)

\* errors.forEach((error) => logger(error)): the call for the next error, made
\* when the test on the rejected items says so
LogNextError(total, rejected) ==
  /\ phase = "called"
  /\ LoggingDue(total, locals.i - 1, rejected, LogWarningsOf(args[2]))
  /\ Len(log) < Len(locals.acc.errors)
  /\ log' = Append(log, Logged(LoggerOf(args[2]), locals.acc.errors[Len(log) + 1]))
  /\ UNCHANGED <<op, args, phase, locals, result, env, VALIDATION_CONFIG>>

\* the loop is over and every error that is to be logged has been
ReadyToReturn(total, rejected) ==
  /\ phase = "called"
  /\ locals.i > total
  /\ \/ ~LoggingDue(total, locals.i - 1, rejected, LogWarningsOf(args[2]))
     \/ Len(log) = Len(locals.acc.errors)

\* one pass of the for..of loop of validateTestTags
ClassifyTag ==
  /\ op = "validateTestTags"
  /\ phase = "called"
  /\ LET tags == OrEmpty(Get(args[1], "tags"))
     IN /\ locals.i <= Len(tags)
        /\ locals' = [i |-> locals.i + 1, acc |-> validateTestTagsStep(locals.acc, tags[locals.i])]
  /\ UNCHANGED <<op, args, phase, result, log, env, VALIDATION_CONFIG>>

LogTagError ==
  /\ op = "validateTestTags"
  /\ LogNextError(Len(OrEmpty(Get(args[1], "tags"))), Len(locals.acc.invalidTags))

ValidateTestTagsReturn ==
  /\ op = "validateTestTags"
  /\ ReadyToReturn(Len(OrEmpty(Get(args[1], "tags"))), Len(locals.acc.invalidTags))
  /\ phase' = "returned"
  /\ result' = Return([isValid |-> Len(locals.acc.invalidTags) = 0,
                        validTags |-> locals.acc.validTags,
                        invalidTags |-> locals.acc.invalidTags,
                        errors |-> locals.acc.errors])
  /\ UNCHANGED <<op, args, locals, log, env, VALIDATION_CONFIG>>

\* one pass of the for..of loop of validateTestAnnotations
ClassifyAnnotation ==
  /\ op = "validateTestAnnotations"
  /\ phase = "called"
  /\ LET annotations == OrEmpty(Get(args[1], "annotations"))
     IN /\ locals.i <= Len(annotations)
        /\ locals' = [i |-> locals.i + 1,
                      acc |-> validateTestAnnotationsStep(locals.acc, annotations[locals.i])]
  /\ UNCHANGED <<op, args, phase, result, log, env, VALIDATION_CONFIG>>

LogAnnotationError ==
  /\ op = "validateTestAnnotations"
  /\ LogNextError(Len(OrEmpty(Get(args[1], "annotations"))),
                  Len(locals.acc.invalidAnnotations))

ValidateTestAnnotationsReturn ==
  /\ op = "validateTestAnnotations"
  /\ ReadyToReturn(Len(OrEmpty(Get(args[1], "annotations"))),
                   Len(locals.acc.invalidAnnotations))
  /\ phase' = "returned"
  /\ result' = Return([isValid |-> Len(locals.acc.invalidAnnotations) = 0,
                        validAnnotations |-> locals.acc.validAnnotations,
                        invalidAnnotations |-> locals.acc.invalidAnnotations,
                        errors |-> locals.acc.errors])
  /\ UNCHANGED <<op, args, locals, log, env, VALIDATION_CONFIG>>

ValidateTestMetadataCall ==
  op = "validateTestMetadata"
  /\ ReturnsRecord("validateTestMetadata", validateTestMetadata(args[1], args[2]))

HookCall ==
  op = "createMetadataValidationHook"
  /\ Returns("createMetadataValidationHook", createMetadataValidationHook(args[1], args[2]))

ValidateTestCaseMetadataCall ==
  op = "validateTestCaseMetadata"
  /\ Returns("validateTestCaseMetadata",
             [out |-> validateTestCaseMetadata(args[1]), logs |-> <<>>])

CreateTestCaseMetadataFromArraysCall ==
  op = "createTestCaseMetadataFromArrays"
  /\ Returns("createTestCaseMetadataFromArrays",
             createTestCaseMetadataFromArrays(args[1].a, args[2].a))

CreateTestCaseMetadataCall ==
  op = "createTestCaseMetadata"
  /\ Returns("createTestCaseMetadata", createTestCaseMetadata(args[1]))

ExtractAnnotationsFromMetadataCall ==
  op = "extractAnnotationsFromMetadata"
  /\ Returns("extractAnnotationsFromMetadata",
             [out |-> extractAnnotationsFromMetadata(args[1]), logs |-> <<>>])

ExtractTagsFromMetadataCall ==
  op = "extractTagsFromMetadata"
  /\ Returns("extractTagsFromMetadata",
             [out |-> extractTagsFromMetadata(args[1]), logs |-> <<>>])

\* a filter returns the array r.ret and logs r.logs
ReturnsArray(o, r) == Returns(o, [out |-> Return(Arr(r.ret)), logs |-> r.logs])

\* the caller passes the array a call has returned to the same function again
PassesResultAgain(o, r) ==
  /\ op = o
  /\ phase = "returned"
  /\ locals.i = 1
  /\ args' = <<result.ret>>
  /\ locals' = [i |-> 2]
  /\ result' = Return(Arr(r.ret))
  /\ log' = r.logs
  /\ UNCHANGED <<op, phase, env, VALIDATION_CONFIG>>

CreateValidTagsArrayCall ==
  op = "createValidTagsArray"
  /\ ReturnsArray("createValidTagsArray", createValidTagsArray(args[1].a))

CreateValidTagsArrayAgain ==
  op = "createValidTagsArray"
  /\ PassesResultAgain("createValidTagsArray", createValidTagsArray(result.ret.a))

CreateValidAnnotationsArrayCall ==
  op = "createValidAnnotationsArray"
  /\ ReturnsArray("createValidAnnotationsArray", createValidAnnotationsArray(args[1].a))

CreateValidAnnotationsArrayAgain ==
  op = "createValidAnnotationsArray"
  /\ PassesResultAgain("createValidAnnotationsArray",
                       createValidAnnotationsArray(result.ret.a))

\* mergeValidationConfig is called, a first time or again, on the two objects
\* the caller holds
MergeValidationConfigCall ==
  /\ op = "mergeValidationConfig"
  /\ locals.i <= MaxMerges
  /\ LET r == mergeValidationConfig(args[1], args[2])
     IN /\ result' = r.out
        /\ args' = <<r.baseConfig, r.overrides>>
  /\ phase' = "returned"
  /\ locals' = [i |-> locals.i + 1]
  /\ UNCHANGED <<op, log, env, VALIDATION_CONFIG>>

\* the caller merges args under the three groupings; result is the outcome of
\* merge(a, b, c), and locals holds the outcomes of the inner merges and of
\* merge(merge(a, b), c) and merge(a, merge(b, c))
\* main parses the command line; --help prints the help and exits with code 0
MainParseArgs ==
  /\ op = "main"
  /\ phase = "called"
  /\ locals.pc = "parseArgs"
  /\ \E parsed \in {parseArgs(args[1])} :
       IF parsed.exited
       THEN /\ log' = Append(log, Logged(ConsoleLog, HelpText))
            /\ result' = Return(Num(0))
            /\ phase' = "returned"
            /\ locals' = [locals EXCEPT !.pc = "exit"]
       ELSE /\ locals' = [locals EXCEPT !.pc = "loadConfig", !.options = parsed.options]
            /\ UNCHANGED <<log, result, phase>>
  /\ UNCHANGED <<op, args, env, VALIDATION_CONFIG>>

\* main loads the configuration and assigns the flags to it; an assignment that
\* throws is caught, and main exits with code 1
MainLoadConfig ==
  /\ op = "main"
  /\ phase = "called"
  /\ locals.pc = "loadConfig"
  /\ \E loaded \in {IF Truthy(Get(locals.options, "config"))
                     THEN loadConfig(args[2], Get(locals.options, "config").s)
                     ELSE [out |-> EmptyObject, logs |-> <<>>]} :
       IF loaded.out.k # "object"
       THEN /\ log' = log \o loaded.logs \o <<AssignmentError>>
            /\ result' = Return(Num(1))
            /\ phase' = "returned"
            /\ locals' = [locals EXCEPT !.pc = "exit"]
       ELSE /\ log' = log \o loaded.logs
                        \o <<Logged(ConsoleLog, "Running demo validation...\n")>>
            /\ locals' = [locals EXCEPT !.pc = "runDemoValidation",
                                        !.config = applyFlags(loaded.out, locals.options)]
            /\ UNCHANGED <<result, phase>>
  /\ UNCHANGED <<op, args, env, VALIDATION_CONFIG>>

\* one turn of testCases.forEach in runDemoValidation
MainValidateTestCase ==
  /\ op = "main"
  /\ phase = "called"
  /\ locals.pc = "runDemoValidation"
  /\ locals.i <= Len(DemoTestCases)
  /\ \E r \in {demoTestCase(locals.config, DemoTestCases[locals.i], locals.i - 1)} :
       /\ log' = log \o r.logs
       /\ locals' = [locals EXCEPT !.i = @ + 1, !.hasErrors = @ \/ r.hasErrors]
  /\ UNCHANGED <<op, args, phase, result, env, VALIDATION_CONFIG>>

\* runDemoValidation returns !hasErrors, and main exits with the code for it
MainExit ==
  /\ op = "main"
  /\ phase = "called"
  /\ locals.pc = "runDemoValidation"
  /\ locals.i > Len(DemoTestCases)
  /\ LET success == ~locals.hasErrors
     IN /\ log' = log \o Epilogue(success)
        /\ result' = Return(Num(IF success THEN 0 ELSE 1))
  /\ phase' = "returned"
  /\ locals' = [locals EXCEPT !.pc = "exit"]
  /\ UNCHANGED <<op, args, env, VALIDATION_CONFIG>>

\* a test file calls configureValidation(config) before a test starts
ConfigureValidation ==
  /\ op = "metadataValidation"
  /\ phase = "called"
  /\ locals.pc = "validate"
  /\ \E config \in ConfigureOverrides :
       VALIDATION_CONFIG' = configureValidation(VALIDATION_CONFIG, config)
  /\ UNCHANGED <<op, args, phase, locals, result, log, env>>

\* the fixture validates the metadata of the test
FixtureValidate ==
  /\ op = "metadataValidation"
  /\ phase = "called"
  /\ locals.pc = "validate"
  /\ LET arguments == validationArguments(VALIDATION_CONFIG)
         validationResult == validateTestMetadata(args[1], arguments.passed)
     IN /\ VALIDATION_CONFIG' = arguments.kept
        /\ log' = log \o validationResult.logs
        /\ locals' = [locals EXCEPT !.pc = "log",
                                    !.isAllValid = validationResult.isAllValid,
                                    !.errorMessages = validationResult.allErrors]
  /\ UNCHANGED <<op, args, phase, result, env>>

\* one turn of errorMessages.forEach
FixtureLog ==
  /\ op = "metadataValidation"
  /\ phase = "called"
  /\ locals.pc = "log"
  /\ ~locals.isAllValid
  /\ Truthy(Get(VALIDATION_CONFIG, "logWarnings"))
  /\ locals.i <= Len(locals.errorMessages)
  /\ log' = IF Truthy(Get(VALIDATION_CONFIG, "logger"))
            THEN log \o callLogger(Get(VALIDATION_CONFIG, "logger"),
                                   locals.errorMessages[locals.i])
            ELSE log
  /\ locals' = [locals EXCEPT !.i = @ + 1]
  /\ UNCHANGED <<op, args, phase, result, env, VALIDATION_CONFIG>>

\* the fixture throws and the test body never runs
FixtureThrow ==
  /\ op = "metadataValidation"
  /\ phase = "called"
  /\ locals.pc = "log"
  /\ ~locals.isAllValid
  /\ fixtureLoggingDone(VALIDATION_CONFIG, locals.errorMessages, locals.i)
  /\ Truthy(Get(VALIDATION_CONFIG, "failOnValidationError"))
  /\ result' = Throw(fullErrorMessage(args[1], locals.errorMessages))
  /\ phase' = "returned"
  /\ UNCHANGED <<op, args, locals, log, env, VALIDATION_CONFIG>>

\* the fixture calls use() and the test body runs
FixtureUse ==
  /\ op = "metadataValidation"
  /\ phase = "called"
  /\ locals.pc = "log"
  /\ \/ locals.isAllValid
     \/ /\ fixtureLoggingDone(VALIDATION_CONFIG, locals.errorMessages, locals.i)
        /\ ~Truthy(Get(VALIDATION_CONFIG, "failOnValidationError"))
  /\ locals' = [locals EXCEPT !.used = @ + 1]
  /\ result' = Return(Undefined)
  /\ phase' = "returned"
  /\ UNCHANGED <<op, args, log, env, VALIDATION_CONFIG>>

\* the next test of the process starts: the fixture runs before it, or a hook
\* of the file does
BeginRun ==
  /\ op \in {"metadataValidation", "createMetadataValidationHook"}
  /\ phase = "returned"
  /\ \/ \E t \in FixtureTestInfos :
          /\ op' = "metadataValidation"
          /\ args' = <<t>>
     \/ \E c \in SessionHookConfigs, t \in FixtureTestInfos :
          /\ op' = "createMetadataValidationHook"
          /\ args' = <<c, t>>
  /\ phase' = "called"
  /\ locals' = InitialLocals(op')
  /\ result' = Return(Undefined)
  /\ log' = <<>>
  /\ UNCHANGED <<env, VALIDATION_CONFIG>>

\* the caller validates the record r a call has returned and composes again
\* from the tags and the annotations extracted from r
ComposeRoundTrip ==
  /\ op = "createTestCaseMetadataFromArrays"
  /\ phase = "returned"
  /\ locals.i = 1
  /\ ~result.threw
  /\ result.ret # Null
  /\ LET r == result.ret
         tags == extractTagsFromMetadata(r)
         annotations == extractAnnotationsFromMetadata(r)
         again == createTestCaseMetadataFromArrays(tags.ret.a, annotations.ret.a)
     IN /\ locals' = [i |-> 2, r |-> r, valid |-> validateTestCaseMetadata(r)]
        /\ args' = <<tags.ret, annotations.ret>>
        /\ result' = again.out
        /\ log' = again.logs
  /\ UNCHANGED <<op, phase, env, VALIDATION_CONFIG>>

MergeGroupingsCall ==
  /\ op = "mergeGroupings"
  /\ phase = "called"
  /\ LET g == mergeGroupings(args[1], args[2], args[3])
     IN /\ result' = g.flat
        /\ locals' = [i |-> 2, ab |-> g.ab, bc |-> g.bc, left |-> g.left, right |-> g.right]
  /\ phase' = "returned"
  /\ UNCHANGED <<op, args, log, env, VALIDATION_CONFIG>>

MergeTestCaseMetadataCall ==
  op = "mergeTestCaseMetadata"
  /\ Returns("mergeTestCaseMetadata", mergeTestCaseMetadata(args))

Next ==
  \/ IsValidTagCall
  \/ IsValidAnnotationCall
  \/ ClassifyTag
  \/ LogTagError
  \/ ValidateTestTagsReturn
  \/ ClassifyAnnotation
  \/ LogAnnotationError
  \/ ValidateTestAnnotationsReturn
  \/ ValidateTestMetadataCall
  \/ HookCall
  \/ ValidateTestCaseMetadataCall
  \/ CreateValidTagsArrayCall
  \/ CreateValidTagsArrayAgain
  \/ CreateValidAnnotationsArrayCall
  \/ CreateValidAnnotationsArrayAgain
  \/ MergeValidationConfigCall
  \/ MainParseArgs
  \/ MainLoadConfig
  \/ MainValidateTestCase
  \/ MainExit
  \/ ConfigureValidation
  \/ FixtureValidate
  \/ FixtureLog
  \/ FixtureThrow
  \/ FixtureUse
  \/ BeginRun
  \/ ComposeRoundTrip
  \/ MergeGroupingsCall
  \/ CreateTestCaseMetadataFromArraysCall
  \/ CreateTestCaseMetadataCall
  \/ ExtractAnnotationsFromMetadataCall
  \/ ExtractTagsFromMetadataCall
  \/ MergeTestCaseMetadataCall

Spec == Init /\ [][Next]_vars

-----------------------------------------------------------------------------
(* Properties.                                                             *)

Returned(o) == op = o /\ phase = "returned"

TagsOf(testInfo) == OrEmpty(Get(testInfo, "tags"))
AnnotationsOf(testInfo) == OrEmpty(Get(testInfo, "annotations"))

\* a testInfo none of whose tags and annotations is rejected
AllItemsValid(testInfo) ==
  /\ \A i \in 1..Len(TagsOf(testInfo)) : isValidTag(TagsOf(testInfo)[i])
  /\ \A i \in 1..Len(AnnotationsOf(testInfo)) : isValidAnnotation(AnnotationsOf(testInfo)[i])

\* C3: the hook fails iff the testInfo has a rejected tag or annotation and
\* config.failOnValidationError is true; with the option false or absent, or no
\* config at all, it completes normally however invalid the metadata is.
C3_HookFailsIff ==
  Returned("createMetadataValidationHook") =>
    (result.threw <=>
       /\ ~AllItemsValid(args[2])
       /\ Get(args[1], "failOnValidationError") = Bool(TRUE))

\* the hook has failed on a testInfo whose only fault is one rejected annotation
C3_Witness ==
  /\ Returned("createMetadataValidationHook")
  /\ result.threw
  /\ TagsOf(args[2]) = <<Str("@smoke")>>
  /\ AnnotationsOf(args[2]) = <<ImpBad>>

\* C4: when the hook fails, its message is the header followed by every
\* diagnostic of the pass joined by newlines: one per rejected tag in tag order,
\* then one per rejected annotation in annotation order, none left out.
C4_FailureCarriesEveryDiagnostic ==
  (Returned("createMetadataValidationHook") /\ result.threw) =>
    LET invalidTags == SelectSeq(TagsOf(args[2]), IsInvalidTag)
        invalidAnnotations == SelectSeq(AnnotationsOf(args[2]), IsInvalidAnnotation)
        diagnostics ==
          [i \in 1..Len(invalidTags) |-> tagError(invalidTags[i])]
          \o [i \in 1..Len(invalidAnnotations) |-> annotationError(invalidAnnotations[i])]
    IN /\ Len(diagnostics) = Len(invalidTags) + Len(invalidAnnotations)
       /\ result.error = "Test metadata validation failed:\n" \o Join(diagnostics, "\n")

\* the hook has failed with two diagnostics, both for annotations
C4_Witness ==
  /\ Returned("createMetadataValidationHook")
  /\ result.threw
  /\ AnnotationsOf(args[2]) = <<Null, ImpBad>>
  /\ result.error =
       "Test metadata validation failed:\nInvalid annotation: must be an object, got object\nInvalid annotation: type=\"importance\" with description=\"urgent\" - either invalid type or invalid description value for that type"

\* C5: no validator or composer throws for a data problem: whatever tags,
\* annotation entries, metadata records and partial records they are given, also
\* records with a field of the wrong shape such as a tags value that is no array,
\* validateTestTags, validateTestAnnotations, validateTestMetadata,
\* validateTestCaseMetadata, createTestCaseMetadataFromArrays and
\* mergeTestCaseMetadata return instead of raising an error.
C5_NoValidatorThrows ==
  (/\ phase = "returned"
   /\ op \in {"validateTestTags", "validateTestAnnotations", "validateTestMetadata",
              "validateTestCaseMetadata", "createTestCaseMetadataFromArrays",
              "mergeTestCaseMetadata"})
    => ~result.threw

\* the indices of the valid annotations of the given type, and the first of them
ValidOfType(annotations, type) ==
  {i \in 1..Len(annotations) :
     isValidAnnotation(annotations[i]) /\ Get(annotations[i], "type") = type}
FirstIndex(S) == CHOOSE i \in S : \A j \in S : i <= j

\* the elements of q at the indices of S, in index order
AtIndices(q, S) ==
  [n \in 1..Cardinality(S) |-> q[CHOOSE i \in S : Cardinality({j \in S : j <= i}) = n]]

MissingRequiredAnnotations ==
  Logged(ConsoleWarn, "Missing required annotations: importance and category are required")

\* C6: createTestCaseMetadataFromArrays returns null iff the valid entries of
\* annotations hold no importance annotation or no category annotation; it then
\* logs 'Missing required annotations: importance and category are required' and
\* does not throw; otherwise it returns a record and logs no such message.
C6_ComposeNullIffRequiredMissing ==
  Returned("createTestCaseMetadataFromArrays") =>
    LET annotations == args[2].a
        missing == \/ ValidOfType(annotations, IMPORTANCE_TYPE) = {}
                   \/ ValidOfType(annotations, CATEGORY_TYPE) = {}
    IN /\ ~result.threw
       /\ result.ret = Null <=> missing
       /\ missing => Len(log) > 0 /\ log[Len(log)] = MissingRequiredAnnotations
       /\ ~missing => /\ result.ret.k = "object"
                      /\ \A i \in 1..Len(log) : log[i] # MissingRequiredAnnotations

\* an importance annotation outside its domain does not count: null is returned
\* although an importance entry and a valid category are given
C6_Witness ==
  /\ Returned("createTestCaseMetadataFromArrays")
  /\ args[2] = Arr(<<ImpBad, Cat1>>)
  /\ result = Return(Null)
  /\ log = <<MissingRequiredAnnotations>>

\* C7: on success the record of createTestCaseMetadataFromArrays is exactly:
\* importance and category the first valid annotation of the type in input order;
\* assignee and interface the first valid annotation of the type, the key absent
\* when there is none; links every valid link annotation in input order, the key
\* absent when there is none; tags the valid tags in input order with duplicates
\* kept, undefined (no empty array) when no valid tag remains; and no other key.
C7_ComposedRecord ==
  (Returned("createTestCaseMetadataFromArrays") /\ ~result.threw /\ result.ret # Null) =>
    LET tags == args[1].a
        annotations == args[2].a
        r == result.ret
        validTags == SelectSeq(tags, isValidTag)
        First(type) == annotations[FirstIndex(ValidOfType(annotations, type))]
        Optional(key, type) ==
          IF ValidOfType(annotations, type) = {} THEN key \notin Keys(r)
          ELSE key \in Keys(r) /\ Get(r, key) = First(type)
    IN /\ Keys(r) \subseteq {"importance", "category", "assignee", "interface", "links", "tags"}
       /\ Get(r, "importance") = First(IMPORTANCE_TYPE)
       /\ Get(r, "category") = First(CATEGORY_TYPE)
       /\ Optional("assignee", ASSIGNEE_TYPE)
       /\ Optional("interface", INTERFACE_TYPE)
       /\ IF ValidOfType(annotations, LINK_TYPE) = {} THEN "links" \notin Keys(r)
          ELSE Get(r, "links") = Arr(AtIndices(annotations, ValidOfType(annotations, LINK_TYPE)))
       /\ Get(r, "tags") = IF Len(validTags) = 0 THEN Undefined ELSE Arr(validTags)

\* both links are kept in their input order around the other entries, and with
\* no tag given tags is undefined
C7_Witness ==
  /\ Returned("createTestCaseMetadataFromArrays")
  /\ args = <<Arr(<<>>), Arr(<<Link2, Imp2, Link1, Cat1>>)>>
  /\ result.ret # Null
  /\ Get(result.ret, "links") = Arr(<<Link2, Link1>>)
  /\ Get(result.ret, "tags") = Undefined

\* whether every partial is of the declared type Partial<TestCaseMetadata>
TypedArgs == \A i \in 1..Len(args) : IsTypedPartial(args[i])

\* the partials holding key, and the value the last of them gives it
Holders(key) == {i \in 1..Len(args) : key \in Keys(args[i])}
LastValue(key) == args[CHOOSE i \in Holders(key) : \A j \in Holders(key) : j <= i].o[key]

\* the accumulated record has no value for key
Lacks(key) == Holders(key) = {} \/ LastValue(key) = Undefined

MergedMissingRequired ==
  Logged(ConsoleWarn, "Merged metadata missing required fields: importance and category")

\* C8: mergeTestCaseMetadata returns null, logging 'Merged metadata missing
\* required fields: importance and category' and not throwing, iff the record
\* accumulated over all partials in order lacks importance or lacks category;
\* so it returns null for no argument at all, and a record whenever the last
\* partial defining each required field gives it a value.
C8_MergeNullIffRequiredMissing ==
  (Returned("mergeTestCaseMetadata") /\ TypedArgs) =>
    LET missing == Lacks("importance") \/ Lacks("category")
    IN /\ ~result.threw
       /\ result.ret = Null <=> missing
       /\ missing => Len(log) > 0 /\ log[Len(log)] = MergedMissingRequired
       /\ ~missing => /\ result.ret.k = "object"
                      /\ \A i \in 1..Len(log) : log[i] # MergedMissingRequired
       /\ Len(args) = 0 => result.ret = Null

\* a later partial that defines importance as undefined makes the merge fail
C8_Witness ==
  /\ Returned("mergeTestCaseMetadata")
  /\ Len(args) = 2
  /\ Get(args[1], "importance") = Imp1
  /\ Get(args[1], "category") = Cat1
  /\ "importance" \in Keys(args[2])
  /\ result = Return(Null)

MergeSucceeded ==
  Returned("mergeTestCaseMetadata") /\ TypedArgs /\ ~result.threw /\ result.ret # Null

\* C9: in a successful merge every key but tags has the value of the last
\* partial, in argument order, that holds the key: links are replaced as a whole
\* and never concatenated, and the result has no key but these (and tags).
C9_MergeLastWriterWins ==
  MergeSucceeded =>
    LET r == result.ret
        keys == UNION {Keys(args[i]) : i \in 1..Len(args)} \ {"tags"}
    IN /\ Keys(r) \ {"tags"} = keys
       /\ \A key \in keys : r.o[key] = LastValue(key)

\* the links of the later partial have replaced those of the earlier one
C9_Witness ==
  /\ MergeSucceeded
  /\ Len(args) = 2
  /\ Get(args[1], "links") = Arr(<<Link2, Link1>>)
  /\ Get(args[2], "links") = Arr(<<Link1>>)
  /\ Get(result.ret, "links") = Arr(<<Link1>>)

\* the tags of the partials from the n-th on, concatenated in argument order
RECURSIVE ConcatTags(_)
ConcatTags(n) ==
  IF n > Len(args) THEN <<>>
  ELSE (IF IsArray(Get(args[n], "tags")) THEN Get(args[n], "tags").a ELSE <<>>)
       \o ConcatTags(n + 1)

\* C10: in a successful merge the tags field is the valid-tag filter of the
\* concatenation of the partials' tags in argument order, duplicates kept; the
\* field is absent when no partial carries any tag.
C10_MergeTags ==
  MergeSucceeded =>
    LET all == ConcatTags(1)
        r == result.ret
    IN IF Len(all) = 0 THEN "tags" \notin Keys(r)
       ELSE "tags" \in Keys(r) /\ r.o["tags"] = Arr(SelectSeq(all, isValidTag))

\* the same tag given by two partials is kept twice
C10_Witness ==
  /\ MergeSucceeded
  /\ Len(args) = 2
  /\ Get(args[1], "tags") = StrArr(<<"@smoke">>)
  /\ Get(args[2], "tags") = StrArr(<<"@smoke">>)
  /\ Get(result.ret, "tags") = StrArr(<<"@smoke", "@smoke">>)

\* the required fields of m are a valid importance and a valid category annotation
ValidRequired(m) ==
  /\ isValidAnnotation(Get(m, "importance"))
  /\ Get(Get(m, "importance"), "type") = IMPORTANCE_TYPE
  /\ isValidAnnotation(Get(m, "category"))
  /\ Get(Get(m, "category"), "type") = CATEGORY_TYPE

\* what each optional field has to be
ValidAssignee(v) == isValidAnnotation(v) /\ Get(v, "type") = ASSIGNEE_TYPE
ValidInterface(v) == isValidAnnotation(v) /\ Get(v, "type") = INTERFACE_TYPE
ValidLinks(v) ==
  /\ v.k = "array"
  /\ \A i \in 1..Len(v.a) : isValidAnnotation(v.a[i]) /\ Get(v.a[i], "type") = LINK_TYPE
ValidTagsValue(v) == v.k = "array" /\ \A i \in 1..Len(v.a) : isValidTag(v.a[i])

\* the original statement of C11: validateTestCaseMetadata(m), when it returns,
\* returns true iff m.importance is a valid importance annotation and m.category
\* is a valid category annotation, whatever the other fields of m hold.
C11_ValidIffRequiredValid ==
  (Returned("validateTestCaseMetadata") /\ ~result.threw) =>
    result.ret = Bool(ValidRequired(args[1]))

\* C11 (amended): validateTestCaseMetadata(m) returns true iff m.importance is a
\* valid importance annotation, m.category is a valid category annotation, and
\* every optional field of m holding a truthy value passes its own check
\* (assignee a valid assignee annotation, interface a valid interface annotation,
\* links an array of valid link annotations, tags an array of valid tags); so a
\* record that has only the two required fields is valid.
C11_ValidIffRequiredAndOptionalValid ==
  Returned("validateTestCaseMetadata") =>
    LET m == args[1]
        Passes(key, Valid(_)) == ~Truthy(Get(m, key)) \/ Valid(Get(m, key))
    IN /\ result = Return(Bool(TRUE)) <=>
            /\ ValidRequired(m)
            /\ Passes("assignee", ValidAssignee)
            /\ Passes("interface", ValidInterface)
            /\ Passes("links", ValidLinks)
            /\ Passes("tags", ValidTagsValue)
       /\ (ValidRequired(m) /\ Keys(m) = {"importance", "category"}) =>
            result = Return(Bool(TRUE))

\* a record with valid required fields is rejected for a links array holding an
\* annotation that is no link
C11_Witness ==
  /\ Returned("validateTestCaseMetadata")
  /\ ValidRequired(args[1])
  /\ Keys(args[1]) = {"importance", "category", "links"}
  /\ Get(args[1], "links") = Arr(<<Link1, Asg1>>)
  /\ result = Return(Bool(FALSE))

\* an optional field is present when the record gives it a value
Present(m, key) == key \in Keys(m) /\ m.o[key] # Undefined

\* C12: validateTestCaseMetadata returns false for every input that is no object,
\* and for every record with valid importance and category in which a present
\* optional field is invalid: an assignee that is no valid assignee annotation,
\* an interface that is no valid interface annotation, a links value that is no
\* array of valid link annotations, or a tags array holding an invalid tag.
\* (Stated for the calls that return: a call that throws is C5's case.)
C12_RejectsInvalidOptional ==
  (Returned("validateTestCaseMetadata") /\ ~result.threw) =>
    LET m == args[1]
    IN (\/ m.k # "object"
        \/ /\ m.k = "object"
           /\ ValidRequired(m)
           /\ \/ Present(m, "assignee") /\ ~ValidAssignee(m.o["assignee"])
              \/ Present(m, "interface") /\ ~ValidInterface(m.o["interface"])
              \/ Present(m, "links") /\ ~ValidLinks(m.o["links"])
              \/ Present(m, "tags") /\ m.o["tags"].k = "array" /\ ~ValidTagsValue(m.o["tags"]))
       => result.ret = Bool(FALSE)

\* C13: validateTestTags returns a partition of testInfo.tags (no tags key: no
\* tag): validTags is the subsequence of the valid tags and invalidTags that of
\* the invalid ones, both in the original order with duplicates kept, so their
\* lengths add up to the number of tags; errors holds exactly the message
\* 'Invalid tag: "<tag>" - not in list of valid tags' of each invalid tag, in the
\* order of invalidTags; isValid is true iff invalidTags is empty.
C13_TagsPartition ==
  Returned("validateTestTags") =>
    LET tags == IF "tags" \in Keys(args[1]) THEN args[1].o["tags"].a ELSE <<>>
        r == result.ret
    IN /\ ~result.threw
       /\ r.validTags = SelectSeq(tags, isValidTag)
       /\ r.invalidTags = SelectSeq(tags, IsInvalidTag)
       /\ Len(r.validTags) + Len(r.invalidTags) = Len(tags)
       /\ Len(r.errors) = Len(r.invalidTags)
       /\ \A i \in 1..Len(r.errors) :
            r.errors[i] =
              "Invalid tag: \"" \o r.invalidTags[i].s \o "\" - not in list of valid tags"
       /\ r.isValid <=> r.invalidTags = <<>>

\* an invalid tag met twice is reported twice
C13_Witness ==
  /\ Returned("validateTestTags")
  /\ Get(args[1], "tags") = StrArr(<<"@invalid-tag", "@invalid-tag">>)
  /\ result.ret.validTags = <<>>
  /\ Len(result.ret.errors) = 2
  /\ ~result.ret.isValid

\* an entry has no value for a property: the key is absent, undefined or null
HasNo(entry, key) == Get(entry, key) \in {Undefined, Null}

\* C14: validateTestAnnotations produces exactly one error per rejected entry,
\* naming the expectation that failed: 'must be an object, got <typeof>' for a
\* non-object and for null (reported as object); 'missing "type" property' only
\* when the entry has no type; 'missing "description" property' only when the
\* entry has a type and no description; and the 'type=".." with description=".."'
\* message for every entry with a string type and a string description whose
\* type is unknown or whose description is outside the type's domain, an empty
\* description for importance, interface or category included.
C14_ErrorClassification ==
  Returned("validateTestAnnotations") =>
    LET r == result.ret
        rejected == SelectSeq(AnnotationsOf(args[1]), IsInvalidAnnotation)
    IN /\ r.invalidAnnotations = rejected
       /\ Len(r.errors) = Len(rejected)
       /\ \A i \in 1..Len(rejected) :
            LET e == rejected[i]
                msg == r.errors[i]
            IN /\ TypeOf(e) # "object" =>
                    msg = "Invalid annotation: must be an object, got " \o TypeOf(e)
               /\ e = Null => msg = "Invalid annotation: must be an object, got object"
               /\ msg = "Invalid annotation: missing \"type\" property" => HasNo(e, "type")
               /\ msg = "Invalid annotation: missing \"description\" property" =>
                    ~HasNo(e, "type") /\ HasNo(e, "description")
               /\ (Get(e, "type").k = "string" /\ Get(e, "description").k = "string") =>
                    msg = "Invalid annotation: type=\"" \o Get(e, "type").s
                            \o "\" with description=\"" \o Get(e, "description").s
                            \o "\" - either invalid type or invalid description value for that type"

\* C15: validateTestMetadata combines the two validators and nothing more:
\* isAllValid is tags.isValid and annotations.isValid; allErrors is the errors of
\* the tags followed by the errors of the annotations; so isAllValid is true iff
\* allErrors is empty, and one invalid tag with only valid annotations gives
\* exactly one error.
C15_MetadataIsCombination ==
  Returned("validateTestMetadata") =>
    LET r == result.ret
        invalidTags == SelectSeq(TagsOf(args[1]), IsInvalidTag)
        invalidAnnotations == SelectSeq(AnnotationsOf(args[1]), IsInvalidAnnotation)
    IN /\ r.tags.isValid <=> invalidTags = <<>>
       /\ r.annotations.isValid <=> invalidAnnotations = <<>>
       /\ r.tags.errors = [i \in 1..Len(invalidTags) |-> tagError(invalidTags[i])]
       /\ r.annotations.errors =
            [i \in 1..Len(invalidAnnotations) |-> annotationError(invalidAnnotations[i])]
       /\ r.isAllValid <=> (r.tags.isValid /\ r.annotations.isValid)
       /\ Len(r.allErrors) = Len(r.tags.errors) + Len(r.annotations.errors)
       /\ \A i \in 1..Len(r.tags.errors) : r.allErrors[i] = r.tags.errors[i]
       /\ \A i \in 1..Len(r.annotations.errors) :
            r.allErrors[Len(r.tags.errors) + i] = r.annotations.errors[i]
       /\ r.isAllValid <=> r.allErrors = <<>>
       /\ (Len(invalidTags) = 1 /\ invalidAnnotations = <<>>) => Len(r.allErrors) = 1

\* with one invalid tag and one invalid annotation the tag error comes first
C15_Witness ==
  /\ Returned("validateTestMetadata")
  /\ TagsOf(args[1]) = <<Str("@invalid-tag")>>
  /\ AnnotationsOf(args[1]) = <<ImpBad>>
  /\ result.ret.allErrors = <<tagError(Str("@invalid-tag")), annotationError(ImpBad)>>
  /\ ~result.ret.isAllValid

\* the items a validator call is given, and those of them it has to reject
ItemsGiven ==
  IF op = "validateTestTags" THEN TagsOf(args[1]) ELSE AnnotationsOf(args[1])
ItemsRejected ==
  IF op = "validateTestTags" THEN SelectSeq(TagsOf(args[1]), IsInvalidTag)
  ELSE SelectSeq(AnnotationsOf(args[1]), IsInvalidAnnotation)

\* the option as the caller gave it: on unless logWarnings is given as false
WarningsWanted ==
  ~("logWarnings" \in Keys(args[2]) /\ args[2].o["logWarnings"] = Bool(FALSE))
SinkGiven ==
  IF "logger" \in Keys(args[2]) THEN args[2].o["logger"] ELSE Fn("console.warn")

\* C16: in validateTestTags and validateTestAnnotations the logger is called iff
\* logWarnings is true (also when absent) and an item was rejected; it is then
\* called once per error message, in the order of errors, and only after every
\* item has been classified, on config.logger when given and on console.warn
\* otherwise; with logWarnings false it is never called; and the result returned
\* depends on the items alone, so it is the same with and without logging.
C16_LoggerCalls ==
  op \in {"validateTestTags", "validateTestAnnotations"} =>
    /\ Len(log) > 0 =>
         /\ locals.i - 1 = Len(ItemsGiven)
         /\ WarningsWanted
         /\ ItemsRejected # <<>>
    /\ Len(log) <= Len(locals.acc.errors)
    /\ \A i \in 1..Len(log) : log[i] = [sink |-> SinkGiven, msg |-> locals.acc.errors[i]]
    /\ phase = "returned" =>
         /\ Len(log) = IF WarningsWanted THEN Len(ItemsRejected) ELSE 0
         /\ result.ret.errors = locals.acc.errors
         /\ Len(result.ret.errors) = Len(ItemsRejected)
         /\ result.ret.isValid <=> ItemsRejected = <<>>
         /\ IF op = "validateTestTags"
            THEN /\ result.ret.invalidTags = ItemsRejected
                 /\ result.ret.validTags = SelectSeq(ItemsGiven, isValidTag)
            ELSE /\ result.ret.invalidAnnotations = ItemsRejected
                 /\ result.ret.validAnnotations = SelectSeq(ItemsGiven, isValidAnnotation)

\* two rejected annotations have been logged on the caller's logger, in order
C16_Witness ==
  /\ Returned("validateTestAnnotations")
  /\ AnnotationsOf(args[1]) = <<Null, ImpBad>>
  /\ Get(args[2], "logger") = CustomLogger
  /\ log = <<[sink |-> CustomLogger, msg |-> annotationError(Null)],
             [sink |-> CustomLogger, msg |-> annotationError(ImpBad)]>>

\* the known part of a record: its fields other than the caller's additional keys
KnownKeys == {"importance", "category", "assignee", "interface", "links", "tags"}

\* C17: createTestCaseMetadata(input) always returns a record; an empty links
\* array or an empty tags array in the input gives an absent field in the
\* record, never an empty array; and a links array that is not empty gives one
\* link annotation per element, in order.
C17_EmptyArraysOmitted ==
  Returned("createTestCaseMetadata") =>
    LET input == args[1]
        links == Get(input, "links")
        tags == Get(input, "tags")
    IN /\ ~result.threw
       /\ result.ret.k = "object"
       /\ links = Arr(<<>>) => "links" \notin Keys(result.ret)
       /\ tags = Arr(<<>>) => "tags" \notin Keys(result.ret)
       /\ (links.k = "array" /\ Len(links.a) > 0) =>
            /\ "links" \in Keys(result.ret)
            /\ Len(result.ret.o["links"].a) = Len(links.a)
            /\ \A i \in 1..Len(links.a) :
                 result.ret.o["links"].a[i] =
                   Obj([type |-> Str("link"), description |-> links.a[i]])

\* empty links and tags arrays have both been left out of the record
C17_Witness ==
  /\ Returned("createTestCaseMetadata")
  /\ Get(args[1], "links") = Arr(<<>>)
  /\ Get(args[1], "tags") = Arr(<<>>)
  /\ Keys(result.ret) = {"importance", "category"}

\* C18: createTestCaseMetadata(input) wraps each primitive into the annotation
\* of its type: importance and category of the record carry input.importance
\* and input.category as description; whenever the input provides assignee (any
\* string) or interface, the record holds the assignee / interface annotation
\* with the provided value as description; and such a field is absent only when
\* the input does not provide it.
C18_WrapsPrimitives ==
  Returned("createTestCaseMetadata") =>
    LET input == args[1]
        r == result.ret
        Wrapped(key) ==
          IF key \in Keys(input) /\ input.o[key] # Undefined
          THEN /\ key \in Keys(r)
               /\ r.o[key] = Obj([type |-> Str(key), description |-> input.o[key]])
          ELSE key \notin Keys(r)
    IN /\ ~result.threw
       /\ Wrapped("importance")
       /\ Wrapped("category")
       /\ Wrapped("assignee")
       /\ Wrapped("interface")

\* the original statement of C19: every additional key of the typed input of
\* createTestCaseMetadata is in the returned record with the same value, and the
\* verdict of validateTestCaseMetadata does not depend on unknown keys.
C19_ExtensionFieldsPreserved ==
  /\ Returned("createTestCaseMetadata") =>
       \A key \in Keys(args[1]) \ KnownKeys :
         key \in Keys(result.ret) /\ result.ret.o[key] = args[1].o[key]
  /\ (Returned("validateTestCaseMetadata") /\ ~result.threw /\ args[1].k = "object") =>
       LET m == args[1]
           known == Obj([key \in Keys(m) \cap KnownKeys |-> m.o[key]])
           Passes(key, Valid(_)) == ~Truthy(Get(known, key)) \/ Valid(Get(known, key))
       IN result.ret = Bool(/\ ValidRequired(known)
                            /\ Passes("assignee", ValidAssignee)
                            /\ Passes("interface", ValidInterface)
                            /\ Passes("links", ValidLinks)
                            /\ Passes("tags", ValidTagsValue))

\* C19 (amended): createTestCaseMetadata builds its record from the six known
\* fields only: an additional key of the typed input is not in the returned
\* record; an extension field of a metadata record is not validated: the verdict
\* of validateTestCaseMetadata does not depend on the presence or value of
\* unknown keys.
C19_ExtensionFieldsNotComposed ==
  /\ Returned("createTestCaseMetadata") =>
       /\ Keys(result.ret) \subseteq KnownKeys
       /\ \A key \in Keys(args[1]) \ KnownKeys : key \notin Keys(result.ret)
  /\ (Returned("validateTestCaseMetadata") /\ ~result.threw /\ args[1].k = "object") =>
       LET m == args[1]
           known == Obj([key \in Keys(m) \cap KnownKeys |-> m.o[key]])
           Passes(key, Valid(_)) == ~Truthy(Get(known, key)) \/ Valid(Get(known, key))
       IN result.ret = Bool(/\ ValidRequired(known)
                            /\ Passes("assignee", ValidAssignee)
                            /\ Passes("interface", ValidInterface)
                            /\ Passes("links", ValidLinks)
                            /\ Passes("tags", ValidTagsValue))

\* the custom field of the input is not in the record
C19_Witness ==
  /\ Returned("createTestCaseMetadata")
  /\ Get(args[1], "customField") = Str("custom-value")
  /\ "customField" \notin Keys(result.ret)
  /\ Get(result.ret, "importance") = createImportanceAnnotation(Get(args[1], "importance"))

\* C20: extractAnnotationsFromMetadata(m) returns the annotations of m in the
\* order importance, category, assignee if present, interface if present, then
\* the links in their stored order, so 2 + (assignee present) + (interface
\* present) + (number of links) entries; extractTagsFromMetadata(m) returns
\* m.tags, or an empty sequence when tags is absent.
C20_ExtractOrder ==
  /\ Returned("extractAnnotationsFromMetadata") =>
       LET m == args[1]
           Has(key) == key \in Keys(m) /\ m.o[key] # Undefined
           links == IF Has("links") THEN m.o["links"].a ELSE <<>>
           n == 2 + (IF Has("assignee") THEN 1 ELSE 0) + (IF Has("interface") THEN 1 ELSE 0)
           r == result.ret.a
       IN /\ ~result.threw
          /\ Len(r) = n + Len(links)
          /\ r[1] = m.o["importance"]
          /\ r[2] = m.o["category"]
          /\ Has("assignee") => r[3] = m.o["assignee"]
          /\ Has("interface") => r[n] = m.o["interface"]
          /\ \A i \in 1..Len(links) : r[n + i] = links[i]
  /\ Returned("extractTagsFromMetadata") =>
       LET m == args[1]
       IN result = Return(IF "tags" \in Keys(m) /\ m.o["tags"] # Undefined
                          THEN m.o["tags"] ELSE Arr(<<>>))

\* a record with an assignee, no interface and two links gives five annotations,
\* the links last and in their order
C20_Witness ==
  /\ Returned("extractAnnotationsFromMetadata")
  /\ "interface" \notin Keys(args[1])
  /\ result = Return(Arr(<<Imp1, Cat1, Asg1, Link2, Link1>>))

\* C21: createValidTagsArray(xs) and createValidAnnotationsArray(xs) are
\* subsequence filters keeping order and duplicates: the result is the elements
\* of xs that isValidTag / isValidAnnotation accepts, each as often and in the
\* order it stands in xs, so it is never longer than xs; and the filter applied
\* to its own result returns that result.
C21_SubsequenceFilters ==
  (phase = "returned" /\ op \in {"createValidTagsArray", "createValidAnnotationsArray"}) =>
    LET xs == args[1].a
        kept == IF op = "createValidTagsArray"
                THEN {i \in 1..Len(xs) : isValidTag(xs[i])}
                ELSE {i \in 1..Len(xs) : isValidAnnotation(xs[i])}
    IN /\ ~result.threw
       /\ result.ret = Arr(AtIndices(xs, kept))
       /\ Len(result.ret.a) <= Len(xs)
       /\ locals.i = 2 => result.ret = args[1]

\* the filter has been given its own result, which held a valid annotation twice
C21_Witness ==
  /\ op = "createValidAnnotationsArray"
  /\ phase = "returned"
  /\ locals.i = 2
  /\ result = Return(Arr(<<Link2, Imp1, Link2>>))

\* C29: createValidTagsArray(xs) emits exactly one diagnostic 'Invalid tags
\* found and filtered out: <list>', the list being every rejected tag joined by
\* ', ' in the original order, duplicates included, when an element of xs is
\* invalid; it emits nothing when every element is valid or xs is empty; and the
\* sequence returned is the same with and without the diagnostic.
C29_OneDiagnostic ==
  Returned("createValidTagsArray") =>
    LET xs == args[1].a
        rejected == AtIndices(xs, {i \in 1..Len(xs) : ~isValidTag(xs[i])})
    IN /\ log = IF Len(rejected) = 0 THEN <<>>
                ELSE <<[sink |-> Fn("console.warn"),
                        msg |-> "Invalid tags found and filtered out: "
                                  \o Join([i \in 1..Len(rejected) |-> rejected[i].s], ", ")]>>
       /\ result = Return(Arr(AtIndices(xs, {i \in 1..Len(xs) : isValidTag(xs[i])})))

\* one diagnostic lists the invalid tag twice
C29_Witness ==
  /\ Returned("createValidTagsArray")
  /\ args[1] = StrArr(<<"@invalid-tag", "@smoke", "@invalid-tag">>)
  /\ log = <<[sink |-> Fn("console.warn"),
              msg |-> "Invalid tags found and filtered out: @invalid-tag, @invalid-tag"]>>
  /\ result = Return(StrArr(<<"@smoke">>))

\* C22: mergeValidationConfig(base, overrides) returns, for every key, the
\* value of overrides when overrides contains the key and the value of base
\* otherwise, so with empty overrides the result equals base; and no call of a
\* sequence of merges modifies base or overrides, DEFAULT_VALIDATION_CONFIG in
\* particular.
C22_MergeValidationConfig ==
  [][(op = "mergeValidationConfig" /\ phase' = "returned") =>
       LET base == args[1]
           overrides == args[2]
           merged == result'.ret
       IN /\ args' = args
          /\ ~result'.threw
          /\ Keys(merged) = Keys(base) \cup Keys(overrides)
          /\ \A key \in Keys(merged) :
               Get(merged, key) = IF key \in Keys(overrides) THEN Get(overrides, key)
                                   ELSE Get(base, key)
          /\ Keys(overrides) = {} => merged = base]_vars

\* DEFAULT_VALIDATION_CONFIG has been merged twice with overrides that replace
\* one of its values
C22_Witness ==
  /\ Returned("mergeValidationConfig")
  /\ locals.i = 3
  /\ args = <<DEFAULT_VALIDATION_CONFIG, Obj([failOnValidationError |-> Bool(TRUE)])>>
  /\ result = Return(Obj([failOnValidationError |-> Bool(TRUE), logWarnings |-> Bool(TRUE),
                           logger |-> ConsoleWarn]))

\* the outcome x of a merge is a record
Merged(x) == ~x.threw /\ x.ret # Null

\* the tags field of the record m, or Absent
TagsField(m) == IF "tags" \in Keys(m) THEN m.o["tags"] ELSE Absent

\* C25: for partials a, b, c for which merge(a,b), merge(b,c) and
\* merge(a,b,c) all succeed, merge(merge(a,b),c), merge(a,merge(b,c)) and
\* merge(a,b,c) succeed with the same tags field: all three lack it, or all
\* three hold the valid-tag filter of a.tags ++ b.tags ++ c.tags.
C25_TagsIndependentOfGrouping ==
  (Returned("mergeGroupings") /\ Merged(locals.ab) /\ Merged(locals.bc) /\ Merged(result)) =>
    /\ Merged(locals.left)
    /\ Merged(locals.right)
    /\ TagsField(locals.left.ret) = TagsField(result.ret)
    /\ TagsField(locals.right.ret) = TagsField(result.ret)
    /\ "tags" \in Keys(result.ret) =>
         result.ret.o["tags"] = Arr(SelectSeq(ConcatTags(1), isValidTag))

\* the restriction of the record m to its keys other than tags
NonTags(m) == [key \in Keys(m) \ {"tags"} |-> m.o[key]]

\* C26: for partials a, b, c whose inner merges merge(a,b) and merge(b,c)
\* are non-null, merge(merge(a,b),c), merge(a,merge(b,c)) and merge(a,b,c)
\* are records with the same keys other than tags and the same values for
\* them: the value of the last of a, b, c, in this order, that holds the key.
C26_MergeAssociative ==
  (Returned("mergeGroupings") /\ Merged(locals.ab) /\ Merged(locals.bc)) =>
    /\ Merged(result)
    /\ Merged(locals.left)
    /\ Merged(locals.right)
    /\ NonTags(locals.left.ret) = NonTags(result.ret)
    /\ NonTags(locals.right.ret) = NonTags(result.ret)
    /\ DOMAIN NonTags(result.ret) = UNION {Keys(args[i]) : i \in 1..3} \ {"tags"}
    /\ \A key \in DOMAIN NonTags(result.ret) : result.ret.o[key] = LastValue(key)

\* b has replaced the assignee of a by undefined and c the importance of both,
\* under every grouping
C26_Witness ==
  /\ Returned("mergeGroupings")
  /\ Merged(locals.ab)
  /\ Merged(locals.bc)
  /\ Get(args[1], "assignee") = Asg1
  /\ "assignee" \in Keys(args[2])
  /\ Get(args[2], "assignee") = Undefined
  /\ args[3] = Obj([importance |-> Imp2])
  /\ "assignee" \in Keys(locals.left.ret)
  /\ Get(locals.left.ret, "assignee") = Undefined
  /\ Get(locals.right.ret, "importance") = Imp2

\* C27: every non-null record r returned by createTestCaseMetadataFromArrays
\* passes validateTestCaseMetadata, and composing again from
\* extractTagsFromMetadata(r) and extractAnnotationsFromMetadata(r) returns,
\* without any diagnostic, a record equal to r: the same keys with the same
\* importance, category, assignee, interface, links and tags.
C27_ComposeExtractRoundTrip ==
  (Returned("createTestCaseMetadataFromArrays") /\ locals.i = 2) =>
    /\ locals.valid = Return(Bool(TRUE))
    /\ ~result.threw
    /\ result.ret # Null
    /\ Keys(result.ret) = Keys(locals.r)
    /\ \A key \in {"importance", "category", "assignee", "interface", "links", "tags"} :
         Get(result.ret, key) = Get(locals.r, key)
    /\ log = <<>>

\* a record with two links and tags: undefined has made the round trip
C27_Witness ==
  /\ Returned("createTestCaseMetadataFromArrays")
  /\ locals.i = 2
  /\ Keys(locals.r) = {"importance", "category", "links", "tags"}
  /\ Get(locals.r, "links") = Arr(<<Link2, Link1>>)
  /\ Get(locals.r, "tags") = Undefined
  /\ result.ret = locals.r

\* what a run has logged, how it has ended, and how often it has called use()
Outcome == [out |-> result, logs |-> log, used |-> IF op = "metadataValidation" THEN locals.used ELSE 0]

\* C24: runs share no mutable state: the outcome of
\* a run through the hook or the auto fixture (what is logged, whether it fails)
\* is the outcome the same run has in a process just started, whatever ran
\* before it, earlier validation runs and calls of configureValidation included.
C24_NoSharedState ==
  /\ Returned("metadataValidation") =>
       Outcome = metadataValidation(InitialValidationConfig(env), args[1])
  /\ Returned("createMetadataValidationHook") =>
       LET fresh == createMetadataValidationHook(args[1], args[2])
       IN result = fresh.out /\ log = fresh.logs

\* what does hold of the state runs share: no step of a validation run changes
\* VALIDATION_CONFIG, which only configureValidation writes; the outcome of a
\* fixture run is determined by its testInfo and the VALIDATION_CONFIG current
\* when it runs, and the outcome of a hook run by its arguments alone
RunsLeaveValidationConfig ==
  [][/\ (phase' # phase \/ locals' # locals \/ log' # log \/ result' # result) =>
          (VALIDATION_CONFIG' = VALIDATION_CONFIG /\ env' = env)
     /\ (op = "metadataValidation" /\ phase = "called" /\ phase' = "returned") =>
          /\ result' = metadataValidation(VALIDATION_CONFIG, args[1]).out
          /\ log' = metadataValidation(VALIDATION_CONFIG, args[1]).logs
          /\ locals'.used = metadataValidation(VALIDATION_CONFIG, args[1]).used
     /\ (op = "createMetadataValidationHook" /\ phase = "called" /\ phase' = "returned") =>
          /\ result' = createMetadataValidationHook(args[1], args[2]).out
          /\ log' = createMetadataValidationHook(args[1], args[2]).logs]_vars

\* the diagnostics of the testInfo, tags first
DiagnosticsOf(testInfo) ==
  LET invalidTags == SelectSeq(TagsOf(testInfo), IsInvalidTag)
      invalidAnnotations == SelectSeq(AnnotationsOf(testInfo), IsInvalidAnnotation)
  IN [i \in 1..Len(invalidTags) |-> tagError(invalidTags[i])]
     \o [i \in 1..Len(invalidAnnotations) |-> annotationError(invalidAnnotations[i])]

\* the fixture logs: logWarnings is true and a logger is set
FixtureLogs == Truthy(Get(VALIDATION_CONFIG, "logWarnings")) /\ Truthy(Get(VALIDATION_CONFIG, "logger"))

\* the order of a fixture run whose logger calls, were all errors logged, are calls
FixtureOrder(calls) ==
  op = "metadataValidation" =>
    LET errors == DiagnosticsOf(args[1])
        logged == IF phase = "returned" \/ ~Truthy(Get(VALIDATION_CONFIG, "logWarnings"))
                  THEN Len(errors) ELSE locals.i - 1
    IN /\ locals.pc = "validate" => (log = <<>> /\ phase = "called")
       /\ locals.pc = "log" =>
            /\ locals.errorMessages = errors
            /\ log = IF FixtureLogs THEN SubSeq(calls, 1, logged) ELSE <<>>
       /\ phase = "called" => locals.used = 0
       /\ phase = "returned" =>
            /\ result.threw <=>
                 (Len(errors) > 0 /\ Truthy(Get(VALIDATION_CONFIG, "failOnValidationError")))
            /\ locals.used = IF result.threw THEN 0 ELSE 1

\* the original statement of C28: a fixture run validates with core logging
\* off; then, when VALIDATION_CONFIG.logWarnings is true and a logger is set,
\* every error reaches the logger exactly once, in order, with the prefix
\* '[Metadata Validation] '; only then it throws, if failOnValidationError is
\* true; and use() is called exactly once iff nothing was thrown.
C28_FixtureOrderPrefixed ==
  FixtureOrder(LET errors == DiagnosticsOf(args[1])
                   logger == Get(VALIDATION_CONFIG, "logger")
               IN [n \in 1..Len(errors) |->
                     [sink |-> IF logger = FixtureLogger THEN Fn("console.warn") ELSE logger,
                      msg |-> "[Metadata Validation] " \o errors[n]]])

\* C28: a fixture run validates with core logging off; then, when
\* VALIDATION_CONFIG.logWarnings is true and a logger is set, every error is
\* passed to the logger exactly once, in order and as it is: the prefix
\* '[Metadata Validation] ' is put before it by the logger VALIDATION_CONFIG
\* starts with, in its console.warn, and a logger set by configureValidation
\* gets the bare error; only then the fixture throws, if failOnValidationError
\* is true; and use() is called exactly once iff nothing was thrown.
C28_FixtureOrder ==
  FixtureOrder(LET errors == DiagnosticsOf(args[1])
                   logger == Get(VALIDATION_CONFIG, "logger")
               IN [n \in 1..Len(errors) |->
                     IF logger = FixtureLogger
                     THEN [sink |-> Fn("console.warn"),
                           msg |-> "[Metadata Validation] " \o errors[n]]
                     ELSE [sink |-> logger, msg |-> errors[n]]])

\* the fixture has passed both errors of a test to a logger set by
\* configureValidation and has thrown afterwards
C28_Witness ==
  /\ Returned("metadataValidation")
  /\ Get(VALIDATION_CONFIG, "logger") = CustomLogger
  /\ Len(log) = 2
  /\ log[1].sink = CustomLogger
  /\ result.threw
  /\ locals.used = 0

\* the options of the run, and whether --help has ended it
Options == parseArgs(args[1]).options
Helped == parseArgs(args[1]).exited

\* the run has reached runDemoValidation and has validated every test case
Validated == locals.config # Undefined /\ locals.i > Len(DemoTestCases)

\* main has caught an error
UnexpectedError == \E i \in 1..Len(log) : log[i].sink = Fn("console.error")

\* --config names a file, and there is no such file
ConfigMissing ==
  /\ ~Helped
  /\ Truthy(Get(Options, "config"))
  /\ (Get(Options, "config").s # ConfigPath \/ args[2].k # "string")

\* --config names a file that holds no configuration: no JSON, or JSON that is
\* no object
ConfigMalformed ==
  /\ ~Helped
  /\ Truthy(Get(Options, "config"))
  /\ ~ConfigMissing
  /\ (JSONParse(args[2].s).threw \/ JSONParse(args[2].s).ret.k # "object")

\* the entries of the log written through console.warn or a logger
Warnings == SelectSeq(log, LAMBDA e : e.sink \notin {Fn("console.log"), Fn("console.error")})

\* C23: main exits with code 0 iff no test case it validated has a validation
\* error, and with code 1 otherwise, also after an unexpected error; a missing
\* or malformed configuration file never aborts the run: a warning is logged,
\* the configuration is the empty one, and the validation still runs.
C23_ExitCodeAndConfigFallback ==
  Returned("main") =>
    /\ result.ret \in {Num(0), Num(1)}
    /\ result.ret = Num(0) <=>
         /\ ~UnexpectedError
         /\ Validated => \A n \in 1..Len(DemoTestCases) : AllItemsValid(DemoTestCases[n])
    /\ (ConfigMissing \/ ConfigMalformed) =>
         /\ Len(Warnings) = 1
         /\ Validated
         /\ Keys(locals.config) = {"failOnValidationError", "logWarnings"}
         /\ ~UnexpectedError

=============================================================================
